---------------------------- MODULE Spec2Model ----------------------------
(***************************************************************************)
(* Model of the RHD estimation backend: the item master (organizations,    *)
(* regions, divisions, items), the estimation lines with their quantity /  *)
(* rate / amount computation, and the special-item-request workflow.       *)
(*                                                                         *)
(* Numbers are fixed point, as the columns of app/models.py store them:    *)
(*   rate, amount      Numeric(15,2)  -> integer hundredths ("cents")      *)
(*   length, width, thickness, quantity, calculated_qty                    *)
(*                     Numeric(15,3)                                       *)
(* Dimensions are drawn from multiples of 0.01 and are written in          *)
(* hundredths; the quantity computed by calculate_qty is the exact product *)
(* in millionths (10^-6), and the value the calculated_qty column keeps is *)
(* that product rounded to thousandths.                                    *)
(* An optional value (Python None / SQL NULL) is the empty tuple, a        *)
(* present value x is the one-element tuple <<x>>.                         *)
(***************************************************************************)
EXTENDS Integers, Sequences, FiniteSets, TLC

VARIABLES
    organizations,   \* table organizations: set of [org_id, name]
    regions,         \* table regions: set of [organization_id, name]
    divisions,       \* table divisions: set of [division_id, name, organization_id]
    items,           \* table items
    special_items,   \* table special_items
    estimations,     \* table estimations: set of estimation_id
    lines,           \* table estimation_lines
    requests,        \* table special_item_requests
    dialect,         \* the database engine of the deployment
    now,             \* the clock, in milliseconds (datetime.utcnow())
    proc,            \* the requests in flight: one record per worker
    lastOp,          \* the last single-transaction handler that completed
    calc             \* the inputs and the result of one calculate_qty call

vars == <<organizations, regions, divisions, items, special_items, estimations,
          lines, requests, dialect, now, proc, lastOp, calc>>

catalog == <<organizations, regions, divisions, items>>

(***************************************************************************)
(* Bounds of the model.                                                    *)
(***************************************************************************)
MaxItems == 2
MaxLines == 2
MaxLinesEdit == 1
MaxEstimations == 2
MaxRequests == 2
MaxClock == 1
MaxRows == 1
MaxBatch == 2
NumProcs == 2

Procs == 1..NumProcs

(***************************************************************************)
(* Optional values.                                                        *)
(***************************************************************************)
None == <<>>
Some(x) == <<x>>
Val(o) == o[1]

\* Python's `x or d` on an optional number: d when x is None or 0.
OrDefault(o, d) == IF o = None \/ Val(o) = 0 THEN d ELSE Val(o)

SetMax(S) == IF S = {} THEN 0 ELSE CHOOSE m \in S : \A x \in S : x <= m

\* The primary key an autoincrement column gives the next inserted row.
NextId(ids) == SetMax(ids) + 1

(***************************************************************************)
(* Fixed-point arithmetic.                                                 *)
(***************************************************************************)
\* Python's round() on a value n/d: to the nearest, a tie to the even digit.
RoundHalfEven(n, d) ==
    LET q == n \div d
        r == n % d
    IN  IF 2 * r < d THEN q
        ELSE IF 2 * r > d THEN q + 1
        ELSE IF q % 2 = 0 THEN q ELSE q + 1

\* The rounding a Numeric column applies to a stored value n/d.
RoundHalfUp(n, d) ==
    LET q == n \div d
        r == n % d
    IN  IF 2 * r >= d THEN q + 1 ELSE q

\* One, as a dimension in hundredths.
DimUnit == 100
\* One, as a quantity in millionths: a product of three dimensions.
Micro == DimUnit * DimUnit * DimUnit
\* calculated_qty is Numeric(15,3): millionths per thousandth.
QtyScale == 1000

(***************************************************************************)
(* The schema's constraints (app/models.py).                               *)
(***************************************************************************)
ItemKey(it) == <<it.item_code, it.region, it.organization>>

\* The items table without uq_item_code_region_org.
NoUqItem(tbl, it) == FALSE

\* uq_item_code_region_org: another row holds the same business key.
ViolatesUqItem(tbl, it) ==
    \E j \in tbl : j.item_id # it.item_id /\ ItemKey(j) = ItemKey(it)

\* Foreign keys are enforced by PostgreSQL (production); the SQLite engine of
\* development is opened without PRAGMA foreign_keys and does not enforce them.
ForeignKeys == dialect = "postgresql"

ItemIds == {it.item_id : it \in items}
DivisionIds == {d.division_id : d \in divisions}
LineIds == {l.line_id : l \in lines}
RequestIds == {r.request_id : r \in requests}

ItemById(id) == CHOOSE it \in items : it.item_id = id
LineById(id) == CHOOSE l \in lines : l.line_id = id

(***************************************************************************)
(* Line calculator (app/crud.py).                                          *)
(***************************************************************************)
\* get_item_rate: the item's rate, None when the item is absent or has none.
get_item_rate(tbl, item_id) ==
    IF \E it \in tbl : it.item_id = item_id
    THEN (CHOOSE it \in tbl : it.item_id = item_id).rate
    ELSE None

\* The loop of calculate_qty over (length, width, thickness).
RECURSIVE MulDims(_, _)
MulDims(qty, ds) ==
    IF ds = <<>> THEN qty
    ELSE MulDims(IF Head(ds) # None THEN (qty \div DimUnit) * Val(Head(ds)) ELSE qty,
                 Tail(ds))

\* calculate_qty testing the truth of quantity instead of `is not None`.
calculate_qty_truthy(no_of_units, length, width, thickness, quantity) ==
    IF quantity # None /\ Val(quantity) # 0
    THEN Val(quantity) * (Micro \div DimUnit)
    ELSE MulDims(OrDefault(no_of_units, 1) * Micro, <<length, width, thickness>>)

\* calculate_qty, in millionths.
calculate_qty(no_of_units, length, width, thickness, quantity) ==
    IF quantity # None
    THEN Val(quantity) * (Micro \div DimUnit)
    ELSE MulDims(OrDefault(no_of_units, 1) * Micro, <<length, width, thickness>>)

\* round(calc_qty * float(rate), 2) if rate is not None else None, in cents.
LineAmount(calc_qty, rate) ==
    IF rate # None THEN Some(RoundHalfEven(calc_qty * Val(rate), Micro)) ELSE None

\* The value the calculated_qty column keeps, in thousandths.
StoredQty(calc_qty) == Some(RoundHalfUp(calc_qty, QtyScale))

\* `get_item_rate(db, item_id) or 0.0`
SnapshotRate(tbl, item_id) == Some(OrDefault(get_item_rate(tbl, item_id), 0))

\* The row create_estimation_line inserts.
NewLine(line_id, estimation_id, data) ==
    LET line_rate == SnapshotRate(items, data.item_id)
        calc_qty == calculate_qty(data.no_of_units, data.length, data.width,
                                  data.thickness, data.quantity)
    IN  [line_id |-> line_id,
         estimation_id |-> estimation_id,
         item_id |-> data.item_id,
         no_of_units |-> OrDefault(data.no_of_units, 1),
         length |-> data.length,
         width |-> data.width,
         thickness |-> data.thickness,
         quantity |-> data.quantity,
         calculated_qty |-> StoredQty(calc_qty),
         rate |-> line_rate,
         amount |-> LineAmount(calc_qty, line_rate)]

\* update_estimation_line taking the item's rate on every update.
RepointsAlways(line, data) == data.item_id # 0

\* Whether update_estimation_line re-points the line: `data.item_id and
\* data.item_id != line.item_id`.
Repoints(line, data) == data.item_id # 0 /\ data.item_id # line.item_id

\* The row update_estimation_line leaves.
UpdatedLine(line, data) ==
    LET item_id == IF Repoints(line, data) THEN data.item_id ELSE line.item_id
        rate == IF Repoints(line, data) THEN SnapshotRate(items, data.item_id)
                ELSE line.rate
        units == OrDefault(data.no_of_units, 1)
        calc_qty == calculate_qty(Some(units), data.length, data.width,
                                  data.thickness, data.quantity)
    IN  [line_id |-> line.line_id,
         estimation_id |-> line.estimation_id,
         item_id |-> item_id,
         no_of_units |-> units,
         length |-> data.length,
         width |-> data.width,
         thickness |-> data.thickness,
         quantity |-> data.quantity,
         calculated_qty |-> StoredQty(calc_qty),
         rate |-> rate,
         amount |-> LineAmount(calc_qty, rate)]

\* SQL SUM over a set of rows' amounts: NULL amounts are left out, and the
\* sum of no value at all is NULL.
RECURSIVE SqlSum(_)
SqlSum(rows) ==
    IF rows = {} THEN None
    ELSE LET l == CHOOSE x \in rows : TRUE
             rest == SqlSum(rows \ {l})
         IN  IF l.amount = None THEN rest
             ELSE IF rest = None THEN l.amount
             ELSE Some(Val(l.amount) + Val(rest))

\* estimation_total without its WHERE clause.
estimation_total_unfiltered(e) ==
    LET total == SqlSum(lines)
    IN  IF total = None THEN 0 ELSE Val(total)

\* estimation_total: coalesce(sum(amount), 0) where estimation_id = e.
estimation_total(e) ==
    LET total == SqlSum({l \in lines : l.estimation_id = e})
    IN  IF total = None THEN 0 ELSE Val(total)

(***************************************************************************)
(* Inputs.                                                                 *)
(***************************************************************************)
Codes == {"01/01", "02/05"}

\* The dimensional inputs of an EstimationLineCreate payload. no_of_units 0
\* is the falsy count; dimensions and quantity are in hundredths.
\*   0 units, 0.12 x 0.12          -> 0.0144
\*   2 units, length 1.50          -> 3.00
\*   2 units, length 0.12, quantity override 10.00
LineDims ==
    {[no_of_units |-> Some(0), length |-> Some(12), width |-> Some(12),
      thickness |-> None, quantity |-> None],
     [no_of_units |-> Some(2), length |-> Some(150), width |-> None,
      thickness |-> None, quantity |-> None],
     [no_of_units |-> Some(2), length |-> Some(12), width |-> None,
      thickness |-> None, quantity |-> Some(1000)]}

\* The payload with dimensional inputs d and item_id i (0: the falsy id).
LinePayload(i, d) ==
    [item_id |-> i, no_of_units |-> d.no_of_units, length |-> d.length,
     width |-> d.width, thickness |-> d.thickness, quantity |-> d.quantity]

LinePayloads == {LinePayload(i, d) : i \in 0..MaxItems, d \in LineDims}

\* ItemCreate payloads of the admin endpoint POST /items.
ItemPayloads ==
    [division_id : {1},
     item_code : Codes,
     item_description : {"Earth filling"},
     unit : {Some("cum")},
     rate : {None, Some(107)},
     region : {"Dhaka Zone"},
     organization : {"RHD"}]

\* ItemUpdate payloads: the fields the client set, and their values.
RateUpdates == [fields : {{"rate"}}, rate : {None, Some(107), Some(200)}, item_code : {""}]

(***************************************************************************)
(* Workers: a request in flight that takes more than one transaction.      *)
(***************************************************************************)
NoRow == [division |-> "", item_code |-> "", item_description |-> "",
          unit |-> None, rate |-> None, region |-> "", organization |-> ""]

\* No item loaded in the session.
NoItem == [item_id |-> 0]

\* What a handler returns when it returns no request.
NoRequest == [request_id |-> 0]

IdleProc == [op |-> "idle", pc |-> "idle", arg |-> 0, user |-> 0, reason |-> None,
             mode |-> "", row |-> NoRow, idx |-> 0, count |-> 0, skipped |-> 0,
             errors |-> 0, org |-> 0, division |-> 0, item |-> 0, special |-> 0,
             line |-> 0, loaded |-> NoItem, dropped |-> <<>>, refetched |-> FALSE,
             made |-> {}, file |-> <<>>, before |-> None]

\* A worker is free when it serves no request.
Free(p) == proc[p].pc = "idle"

\* The admin worker p serves.
Admin(p) == 100 + p

NoOp == [op |-> "", res |-> ""]
NoCalc == [no_of_units |-> None, length |-> None, width |-> None,
           thickness |-> None, quantity |-> None, done |-> FALSE, out |-> 0]

Done(op, res) == lastOp' = [op |-> op, res |-> res]

(***************************************************************************)
(* The state after startup (app/main.py): empty tables, and the            *)
(* organizations RHD and LGED.                                             *)
(***************************************************************************)
InitDb ==
    /\ organizations = {[org_id |-> 1, name |-> "RHD"], [org_id |-> 2, name |-> "LGED"]}
    /\ regions = {}
    /\ divisions = {}
    /\ items = {}
    /\ special_items = {}
    /\ estimations = {}
    /\ lines = {}
    /\ requests = {}
    /\ dialect \in {"sqlite", "postgresql"}
    /\ now = 0
    /\ proc = [p \in Procs |-> IdleProc]
    /\ lastOp = NoOp

Init == InitDb /\ calc = NoCalc

(***************************************************************************)
(* Single-transaction handlers.                                            *)
(***************************************************************************)
\* POST /projects/{id}/estimations -> crud.create_estimation
CreateEstimation(cap) ==
    /\ Cardinality(estimations) < cap
    /\ estimations' = estimations \cup {NextId(estimations)}
    /\ Done("create_estimation", "ok")
    /\ UNCHANGED <<catalog, special_items, lines, requests, dialect, now, proc, calc>>

\* POST /items/divisions -> crud.create_division; a duplicate name is 409,
\* and so is any other IntegrityError of the insert.
CreateDivision(name, organization_id) ==
    /\ IF \/ \E d \in divisions : d.name = name
          \/ (ForeignKeys /\ ~\E o \in organizations : o.org_id = organization_id)
       THEN /\ UNCHANGED divisions
            /\ Done("create_division", "409")
       ELSE /\ divisions' = divisions \cup
                   {[division_id |-> NextId(DivisionIds), name |-> name,
                     organization_id |-> organization_id]}
            /\ Done("create_division", "ok")
    /\ UNCHANGED <<organizations, regions, items, special_items, estimations, lines,
                   requests, dialect, now, proc, calc>>

\* POST /items -> crud.create_item: the insert fails on the unique key, and
\* on the division's foreign key where the engine enforces it.
CreateItem(data) ==
    LET obj == [item_id |-> NextId(ItemIds),
                division_id |-> data.division_id,
                item_code |-> data.item_code,
                item_description |-> data.item_description,
                unit |-> data.unit,
                rate |-> data.rate,
                region |-> data.region,
                organization |-> data.organization]
    IN  /\ Cardinality(items) < MaxItems
        /\ IF \/ ViolatesUqItem(items, obj)
              \/ (ForeignKeys /\ obj.division_id \notin DivisionIds)
           THEN /\ UNCHANGED items
                /\ Done("create_item", "IntegrityError")
           ELSE /\ items' = items \cup {obj}
                /\ Done("create_item", "ok")
        /\ UNCHANGED <<organizations, regions, divisions, special_items, estimations,
                       lines, requests, dialect, now, proc, calc>>

\* The row crud.update_item leaves: the set fields of the payload assigned.
ItemUpdated(item, data) ==
    [item EXCEPT !.rate = IF "rate" \in data.fields THEN data.rate ELSE @,
                 !.item_code = IF "item_code" \in data.fields THEN data.item_code ELSE @]

\* PUT /items/{item_id} -> crud.update_item
UpdateItem(item_id, data) ==
    /\ IF item_id \notin ItemIds
       THEN /\ UNCHANGED items
            /\ Done("update_item", "404")
       ELSE LET new == ItemUpdated(ItemById(item_id), data)
            IN  IF ViolatesUqItem(items, new)
                THEN /\ UNCHANGED items
                     /\ Done("update_item", "IntegrityError")
                ELSE /\ items' = (items \ {ItemById(item_id)}) \cup {new}
                     /\ Done("update_item", "ok")
    /\ UNCHANGED <<organizations, regions, divisions, special_items, estimations,
                   lines, requests, dialect, now, proc, calc>>

\* POST /estimations/{estimation_id}/lines: add_line, then
\* crud.create_estimation_line.
AddLine(estimation_id, data, cap) ==
    /\ Cardinality(lines) < cap
    /\ IF estimation_id \notin estimations \/ data.item_id \notin ItemIds
       THEN /\ UNCHANGED lines
            /\ Done("add_line", "404")
       ELSE /\ lines' = lines \cup {NewLine(NextId(LineIds), estimation_id, data)}
            /\ Done("add_line", "ok")
    /\ UNCHANGED <<catalog, special_items, estimations, requests, dialect, now,
                   proc, calc>>

\* PUT /estimations/lines/{line_id}: update_line, then
\* crud.update_estimation_line. Re-pointing the line to an item that does not
\* exist fails on the foreign key where the engine enforces it.
UpdateLine(line_id, data) ==
    /\ IF line_id \notin LineIds
       THEN /\ UNCHANGED lines
            /\ Done("update_line", "404")
       ELSE LET line == LineById(line_id)
                new == UpdatedLine(line, data)
            IN  IF ForeignKeys /\ new.item_id \notin ItemIds
                THEN /\ UNCHANGED lines
                     /\ Done("update_line", "IntegrityError")
                ELSE /\ lines' = (lines \ {line}) \cup {new}
                     /\ Done("update_line", IF Repoints(line, data) THEN "repointed" ELSE "ok")
    /\ UNCHANGED <<catalog, special_items, estimations, requests, dialect, now,
                   proc, calc>>

\* DELETE /estimations/lines -> crud.delete_estimation_lines
DeleteLines(line_ids) ==
    /\ line_ids # {}
    /\ lines' = {l \in lines : l.line_id \notin line_ids}
    /\ Done("delete_lines", "ok")
    /\ UNCHANGED <<catalog, special_items, estimations, requests, dialect, now,
                   proc, calc>>

(***************************************************************************)
(* Special item workflow (app/crud.py, app/routers/estimations.py).        *)
(***************************************************************************)
\* f"SP-{int(datetime.utcnow().timestamp() * 1000)}"
SpCodes == <<"SP-0", "SP-1", "SP-2", "SP-3", "SP-4", "SP-5">>
SpCode(t) == SpCodes[t + 1]

\* SpecialItemRequestCreate payloads.
RequestPayloads ==
    [division_id : {1},
     item_description : {"Brick work"},
     unit : {Some("sqm")},
     rate : {Some(107)},
     region : {"Dhaka Zone"},
     organization : {"RHD"},
     dims : {d \in LineDims : d.quantity = None /\ d.width = None}]

RequestById(id) == CHOOSE r \in requests : r.request_id = id

\* The clock advances.
Tick ==
    /\ now < MaxClock
    /\ now' = now + 1
    /\ UNCHANGED <<catalog, special_items, estimations, lines, requests, dialect,
                   proc, lastOp, calc>>

\* POST /estimations/{estimation_id}/special-item-requests, then
\* crud.create_special_item_request.
CreateSpecialItemRequest(estimation_id, data, user_id) ==
    /\ Cardinality(requests) < MaxRequests
    /\ IF estimation_id \notin estimations
       THEN /\ UNCHANGED requests
            /\ Done("create_special_item_request", "404")
       ELSE IF ForeignKeys /\ data.division_id \notin DivisionIds
       THEN /\ UNCHANGED requests
            /\ Done("create_special_item_request", "IntegrityError")
       ELSE /\ requests' = requests \cup
                   {[request_id |-> NextId(RequestIds),
                     estimation_id |-> estimation_id,
                     division_id |-> data.division_id,
                     item_description |-> data.item_description,
                     unit |-> data.unit,
                     rate |-> data.rate,
                     region |-> data.region,
                     organization |-> data.organization,
                     item_code |-> Some(SpCode(now)),
                     no_of_units |-> Val(data.dims.no_of_units),
                     length |-> data.dims.length,
                     width |-> data.dims.width,
                     thickness |-> data.dims.thickness,
                     quantity |-> data.dims.quantity,
                     requested_by_id |-> user_id,
                     status |-> "pending",
                     reason |-> None,
                     reviewed_by_id |-> None,
                     reviewed_at |-> None,
                     item_id |-> None,
                     special_item_id |-> None,
                     line_id |-> None]}
            /\ Done("create_special_item_request", "ok")
    /\ UNCHANGED <<catalog, special_items, estimations, lines, dialect, now, proc, calc>>

\* approve/reject with an always-true status test.
IsPendingAlways(req) == TRUE

\* `req.status != "pending"` is the early return of approve and of reject.
IsPending(req) == req.status = "pending"

\* The Item approve_special_item_request builds from the request.
ItemFromRequest(req, item_id) ==
    [item_id |-> item_id,
     division_id |-> req.division_id,
     item_code |-> IF req.item_code # None THEN Val(req.item_code) ELSE SpCode(now),
     item_description |-> req.item_description,
     unit |-> req.unit,
     rate |-> req.rate,
     region |-> req.region,
     organization |-> req.organization]

\* create_special_item_from_item: the copy of the item's columns.
SpecialItemFromItem(special_item_id, item) ==
    [special_item_id |-> special_item_id,
     item_id |-> item.item_id,
     division_id |-> item.division_id,
     item_code |-> item.item_code,
     item_description |-> item.item_description,
     unit |-> item.unit,
     rate |-> item.rate,
     region |-> item.region,
     organization |-> item.organization]

\* The worker answers the call it served, and is free again.
Answer(p, call, result, ret) ==
    /\ proc' = [proc EXCEPT ![p] = IdleProc]
    /\ lastOp' = [op |-> call.op, res |-> result, arg |-> call.arg, user |-> call.user,
                  ret |-> ret]

\* approve_special_item_request up to its first write: db.get, and the two
\* early returns.
ApproveRead(p, request_id) ==
    /\ Free(p)
    /\ LET call == [IdleProc EXCEPT !.op = "approve", !.arg = request_id,
                                    !.user = Admin(p)]
       IN  IF request_id \notin RequestIds
           THEN Answer(p, call, "404", NoRequest)
           ELSE IF ~IsPending(RequestById(request_id))
           THEN Answer(p, call, "noop", RequestById(request_id))
           ELSE /\ proc' = [proc EXCEPT ![p] = [call EXCEPT !.pc = "ap_item"]]
                /\ UNCHANGED lastOp
    /\ UNCHANGED <<catalog, special_items, estimations, lines, requests, dialect, now,
                   calc>>

\* db.add(item); db.commit(): the first transaction of approve.
ApproveItem(p) ==
    /\ proc[p].pc = "ap_item"
    /\ LET item == ItemFromRequest(RequestById(proc[p].arg), NextId(ItemIds))
       IN  IF \/ ViolatesUqItem(items, item)
              \/ (ForeignKeys /\ item.division_id \notin DivisionIds)
           THEN /\ UNCHANGED items
                /\ Answer(p, proc[p], "IntegrityError", NoRequest)
           ELSE /\ items' = items \cup {item}
                /\ proc' = [proc EXCEPT ![p].pc = "ap_special", ![p].item = item.item_id]
                /\ UNCHANGED lastOp
    /\ UNCHANGED <<organizations, regions, divisions, special_items, estimations, lines,
                   requests, dialect, now, calc>>

\* The special_items table without the unique constraint on item_id.
NoUqSpecialItem(tbl, special) == FALSE

\* special_items.item_id is unique.
ViolatesUqSpecialItem(tbl, special) ==
    \E x \in tbl : x.item_id = special.item_id

\* create_special_item_from_item(db, item): the second transaction. `item`
\* holds the columns read back when it was inserted.
ApproveSpecial(p) ==
    /\ proc[p].pc = "ap_special"
    /\ LET item == ItemFromRequest(RequestById(proc[p].arg), proc[p].item)
           special == SpecialItemFromItem(NextId({x.special_item_id : x \in special_items}),
                                          item)
       IN  IF \/ ViolatesUqSpecialItem(special_items, special)
              \/ (ForeignKeys /\ special.item_id \notin ItemIds)
           THEN /\ UNCHANGED special_items
                /\ Answer(p, proc[p], "IntegrityError", NoRequest)
           ELSE /\ special_items' = special_items \cup {special}
                /\ proc' = [proc EXCEPT ![p].pc = "ap_line",
                                        ![p].special = special.special_item_id]
                /\ UNCHANGED lastOp
    /\ UNCHANGED <<catalog, estimations, lines, requests, dialect, now, calc>>

\* create_estimation_line(db, req.estimation_id, line_payload): the third
\* transaction.
ApproveLine(p) ==
    /\ proc[p].pc = "ap_line"
    /\ LET req == RequestById(proc[p].arg)
           data == [item_id |-> proc[p].item,
                    no_of_units |-> Some(req.no_of_units),
                    length |-> req.length,
                    width |-> req.width,
                    thickness |-> req.thickness,
                    quantity |-> req.quantity]
           line == NewLine(NextId(LineIds), req.estimation_id, data)
       IN  IF ForeignKeys /\ (line.item_id \notin ItemIds
                              \/ line.estimation_id \notin estimations)
           THEN /\ UNCHANGED lines
                /\ Answer(p, proc[p], "IntegrityError", NoRequest)
           ELSE /\ lines' = lines \cup {line}
                /\ proc' = [proc EXCEPT ![p].pc = "ap_mark", ![p].line = line.line_id]
                /\ UNCHANGED lastOp
    /\ UNCHANGED <<catalog, special_items, estimations, requests, dialect, now, calc>>

\* The fourth transaction: the request marked approved.
ApproveMark(p) ==
    /\ proc[p].pc = "ap_mark"
    /\ LET req == RequestById(proc[p].arg)
           new == [req EXCEPT !.status = "approved",
                              !.reviewed_by_id = Some(proc[p].user),
                              !.reviewed_at = Some(now),
                              !.item_id = Some(proc[p].item),
                              !.special_item_id = Some(proc[p].special),
                              !.line_id = Some(proc[p].line)]
       IN  /\ requests' = (requests \ {req}) \cup {new}
           /\ Answer(p, proc[p], "ok", new)
    /\ UNCHANGED <<catalog, special_items, estimations, lines, dialect, now, calc>>

\* A failure after a transaction of approve was committed (the connection is
\* lost, the worker is stopped): get_db closes the session, and what was
\* committed stays.
ApproveAbort(p) ==
    /\ proc[p].pc \in {"ap_special", "ap_line", "ap_mark"}
    /\ Answer(p, proc[p], "failed", NoRequest)
    /\ UNCHANGED <<catalog, special_items, estimations, lines, requests, dialect, now,
                   calc>>

\* reject_special_item_request up to its write.
RejectRead(p, request_id, reason) ==
    /\ Free(p)
    /\ LET call == [IdleProc EXCEPT !.op = "reject", !.arg = request_id,
                                    !.user = Admin(p), !.reason = reason]
       IN  IF request_id \notin RequestIds
           THEN Answer(p, call, "404", NoRequest)
           ELSE IF ~IsPending(RequestById(request_id))
           THEN Answer(p, call, "noop", RequestById(request_id))
           ELSE /\ proc' = [proc EXCEPT ![p] = [call EXCEPT !.pc = "rj_write"]]
                /\ UNCHANGED lastOp
    /\ UNCHANGED <<catalog, special_items, estimations, lines, requests, dialect, now,
                   calc>>

\* A reject that also drops the request's references.
RejectedDroppingReferences(req, reviewer_id, at, reason) ==
    [req EXCEPT !.status = "rejected",
                !.reviewed_by_id = Some(reviewer_id),
                !.reviewed_at = Some(at),
                !.reason = reason,
                !.item_id = None,
                !.special_item_id = None,
                !.line_id = None]

\* The row reject_special_item_request leaves: the four columns it assigns.
Rejected(req, reviewer_id, at, reason) ==
    [req EXCEPT !.status = "rejected",
                !.reviewed_by_id = Some(reviewer_id),
                !.reviewed_at = Some(at),
                !.reason = reason]

\* The transaction of reject.
RejectWrite(p) ==
    /\ proc[p].pc = "rj_write"
    /\ LET req == RequestById(proc[p].arg)
           new == Rejected(req, proc[p].user, now, proc[p].reason)
       IN  /\ requests' = (requests \ {req}) \cup {new}
           /\ Answer(p, proc[p], "ok", new)
    /\ UNCHANGED <<catalog, special_items, estimations, lines, dialect, now, calc>>

(***************************************************************************)
(* SpecWorkflow: requests submitted, approved and rejected by concurrent   *)
(* workers.                                                                *)
(***************************************************************************)
NextWorkflow ==
    \/ Tick
    \/ CreateEstimation(1)
    \/ CreateDivision("Earthwork", 1)
    \/ \E d \in RequestPayloads : CreateSpecialItemRequest(1, d, 1)
    \/ \E p \in Procs, r \in 1..MaxRequests : ApproveRead(p, r)
    \/ \E p \in Procs : ApproveItem(p)
    \/ \E p \in Procs : ApproveSpecial(p)
    \/ \E p \in Procs : ApproveLine(p)
    \/ \E p \in Procs : ApproveMark(p)
    \/ \E p \in Procs : ApproveAbort(p)
    \/ \E p \in Procs, r \in 1..MaxRequests : RejectRead(p, r, Some("duplicate"))
    \/ \E p \in Procs : RejectWrite(p)

SpecWorkflow == Init /\ [][NextWorkflow]_vars

(***************************************************************************)
(* SpecWorkflowSeq: the same calls, each served to its answer before the   *)
(* next one starts.                                                        *)
(***************************************************************************)
Quiet(p) == \A q \in Procs \ {p} : Free(q)

NextWorkflowSeq ==
    \/ Tick
    \/ CreateEstimation(1)
    \/ CreateDivision("Earthwork", 1)
    \/ \E d \in RequestPayloads : CreateSpecialItemRequest(1, d, 1)
    \/ \E p \in Procs, r \in 1..MaxRequests : Quiet(p) /\ ApproveRead(p, r)
    \/ \E p \in Procs : ApproveItem(p)
    \/ \E p \in Procs : ApproveSpecial(p)
    \/ \E p \in Procs : ApproveLine(p)
    \/ \E p \in Procs : ApproveMark(p)
    \/ \E p \in Procs, r \in 1..MaxRequests :
           Quiet(p) /\ RejectRead(p, r, Some("duplicate"))
    \/ \E p \in Procs : RejectWrite(p)

SpecWorkflowSeq == Init /\ [][NextWorkflowSeq]_vars

(***************************************************************************)
(* Properties of the special item workflow.                                *)
(***************************************************************************)
\* What was created from request r: the Items under its business key, and
\* the SpecialItems and EstimationLines of those Items.
ItemsOf(r) == {it \in items : ItemKey(it) = <<Val(r.item_code), r.region, r.organization>>}
SpecialItemsOf(r) == {x \in special_items : \E it \in ItemsOf(r) : x.item_id = it.item_id}
LinesOf(r) == {l \in lines : \E it \in ItemsOf(r) : l.item_id = it.item_id}

\* Exactly one Item, one SpecialItem and one EstimationLine exist for r, and
\* r references them.
ExactlyOneOfEach(r) ==
    /\ r.item_id # None /\ r.special_item_id # None /\ r.line_id # None
    /\ {it.item_id : it \in ItemsOf(r)} = {Val(r.item_id)}
    /\ {x.special_item_id : x \in SpecialItemsOf(r)} = {Val(r.special_item_id)}
    /\ {l.line_id : l \in LinesOf(r)} = {Val(r.line_id)}
    /\ Cardinality(ItemsOf(r)) = 1
    /\ Cardinality(SpecialItemsOf(r)) = 1
    /\ Cardinality(LinesOf(r)) = 1

\* C3: approve_special_item_request is atomic: in every reachable state,
\* failures between its steps included, a request is either pending with no
\* Item, SpecialItem or EstimationLine created from it, or approved with all
\* three existing and referenced by it.
C3_ApprovalAtomic ==
    \A r \in requests :
        \/ r.status = "rejected"
        \/ /\ r.status = "pending"
           /\ ItemsOf(r) = {} /\ SpecialItemsOf(r) = {} /\ LinesOf(r) = {}
        \/ /\ r.status = "approved"
           /\ ExactlyOneOfEach(r)

\* Worker p is called, in this step, to approve request id.
ApproveCalled(p, id) ==
    /\ Free(p)
    /\ \/ proc'[p].op = "approve" /\ proc'[p].arg = id
       \/ /\ Free(p)'
          /\ lastOp' # lastOp
          /\ lastOp'.op = "approve"
          /\ lastOp'.arg = id
          /\ lastOp'.user = Admin(p)

\* C4: approve called on the same request twice in sequence creates exactly
\* one Item, one SpecialItem and one EstimationLine; the second call changes
\* no stored state and returns the already-approved request, with the same
\* item_id, special_item_id, line_id, reviewer and timestamp.
C4_SecondApproveIsNoOp ==
    [][\A p \in Procs : \A r \in requests :
          (r.status = "approved" /\ ApproveCalled(p, r.request_id)) =>
              /\ Free(p)'
              /\ lastOp'.op = "approve"
              /\ lastOp'.res = "noop"
              /\ lastOp'.ret = r
              /\ UNCHANGED <<catalog, special_items, estimations, lines, requests>>
              /\ ExactlyOneOfEach(r)]_vars

\* A second approve, by the other admin and at a later time, was answered
\* with the request as the first approve left it.
C4_Witness ==
    /\ lastOp.op = "approve"
    /\ lastOp.res = "noop"
    /\ lastOp.ret \in requests
    /\ lastOp.ret.status = "approved"
    /\ lastOp.ret.reviewed_by_id # Some(lastOp.user)
    /\ Val(lastOp.ret.reviewed_at) < now
    /\ ExactlyOneOfEach(lastOp.ret)

\* Worker p is called, in this step, to reject request id.
RejectCalled(p, id) ==
    /\ Free(p)
    /\ \/ proc'[p].op = "reject" /\ proc'[p].arg = id
       \/ /\ Free(p)'
          /\ lastOp' # lastOp
          /\ lastOp'.op = "reject"
          /\ lastOp'.arg = id
          /\ lastOp'.user = Admin(p)

\* The columns of a request that reject may assign.
RejectColumns == {"status", "reviewed_by_id", "reviewed_at", "reason"}

\* C12: reject_special_item_request never changes the sets of Items,
\* SpecialItems or EstimationLines; its write changes only status, reviewer,
\* timestamp and reason of the request; called on an approved request it
\* changes nothing, and the Item, SpecialItem and EstimationLine of the
\* approval and the request's references to them stay.
C12_RejectFrame ==
    [][/\ \A p \in Procs :
             (proc[p].pc = "rj_write" /\ proc'[p] # proc[p]) =>
                 /\ UNCHANGED <<catalog, special_items, estimations, lines>>
                 /\ {r.request_id : r \in requests'} = RequestIds
                 /\ \A r \in requests : \A r2 \in requests' :
                        r2.request_id = r.request_id =>
                            /\ \A c \in DOMAIN r \ RejectColumns : r2[c] = r[c]
                            /\ r.request_id # proc[p].arg => r2 = r
       /\ \A p \in Procs : \A r \in requests :
             (r.status = "approved" /\ RejectCalled(p, r.request_id)) =>
                 /\ Free(p)'
                 /\ lastOp'.op = "reject"
                 /\ lastOp'.res = "noop"
                 /\ lastOp'.ret = r
                 /\ UNCHANGED <<catalog, special_items, estimations, lines, requests>>
                 /\ ExactlyOneOfEach(r)]_vars

\* A reject of an approved request was answered with the request as the
\* approval left it, its Item, SpecialItem and EstimationLine in place.
C12_Witness ==
    /\ lastOp.op = "reject"
    /\ lastOp.res = "noop"
    /\ lastOp.ret \in requests
    /\ lastOp.ret.status = "approved"
    /\ ExactlyOneOfEach(lastOp.ret)

\* C5: under every interleaving of approve and reject calls, a request's
\* status changes at most once, from pending, and never again once it is
\* approved or rejected.
C5_StatusChangesOnce ==
    [][\A r \in requests : \A r2 \in requests' :
          (r2.request_id = r.request_id /\ r.status # "pending") =>
              r2.status = r.status]_vars

\* C6: of two admins approving the same pending request concurrently, the
\* second is answered with the approved request, as a no-op and without
\* error, and exactly one Item, SpecialItem and EstimationLine exist for it.
C6_SecondApproverNoOp ==
    (/\ lastOp.op = "approve"
     /\ lastOp.arg \in RequestIds
     /\ RequestById(lastOp.arg).status = "approved") =>
        /\ lastOp.res \in {"ok", "noop"}
        /\ ExactlyOneOfEach(RequestById(lastOp.arg))

(***************************************************************************)
(* Item master import (app/routers/items.py, app/crud.py).                 *)
(***************************************************************************)
\* The rows the parsers hand to the import loop: codes and descriptions are
\* trimmed, an absent organization is "".
\*   two rows of one business key, with different division, description,
\*   unit and rate; a row of an organization and a region not stored yet;
\*   a row without rate.
Rows ==
    {[division |-> "Earthwork", item_code |-> "01/01",
      item_description |-> "Earth filling", unit |-> Some("cum"), rate |-> Some(107),
      region |-> "Dhaka Zone", organization |-> ""],
     [division |-> "Pavement", item_code |-> "01/01",
      item_description |-> "Brick work", unit |-> Some("sqm"), rate |-> Some(200),
      region |-> "Dhaka Zone", organization |-> "RHD"],
     [division |-> "Pavement", item_code |-> "02/05",
      item_description |-> "Brick work", unit |-> None, rate |-> Some(107),
      region |-> "Sylhet Zone", organization |-> "BWDB"],
     [division |-> "Earthwork", item_code |-> "02/05",
      item_description |-> "Earth filling", unit |-> Some("cum"), rate |-> None,
      region |-> "Dhaka Zone", organization |-> "RHD"]}

\* `item_data.organization or "RHD"`
OrgNameOf(row) == IF row.organization = "" THEN "RHD" ELSE row.organization

\* The defensive validation of create_item_from_parsed_data.
Placeholders == {"none", "null", "-"}

\* str.strip() and str.lower(), on the texts of the model: the texts that
\* carry surrounding blanks or capitals, and what the call makes of them.
Strip(s) ==
    CASE s = "  " -> ""
      [] s = " - " -> "-"
      [] s = " null " -> "null"
      [] s = " None " -> "None"
      [] s = " 01/01 " -> "01/01"
      [] s = " Earth filling " -> "Earth filling"
      [] OTHER -> s

Lower(s) ==
    CASE s = "None" -> "none"
      [] s = "NULL" -> "null"
      [] s = " None " -> " none "
      [] s = "Earth filling" -> "earth filling"
      [] s = " Earth filling " -> " earth filling "
      [] s = "Brick work" -> "brick work"
      [] s = "Dhaka Zone" -> "dhaka zone"
      [] s = "Sylhet Zone" -> "sylhet zone"
      [] s = "Item Code" -> "item code"
      [] s = "Major Division" -> "major division"
      [] s = "Division" -> "division"
      [] s = "Description" -> "description"
      [] s = "Unit" -> "unit"
      [] s = "Organization" -> "organization"
      [] s = "SI. No" -> "si. no"
      [] s = "Rate" -> "rate"
      [] s = "Region" -> "region"
      [] OTHER -> s

\* The validation comparing the trimmed texts as they are written.
InvalidRowCaseSensitive(row) ==
    LET code_clean == Strip(row.item_code)
        desc_clean == Strip(row.item_description)
    IN  \/ code_clean = "" /\ desc_clean = ""
        \/ code_clean \in Placeholders
        \/ desc_clean \in Placeholders

InvalidRow(row) ==
    LET code_clean == Strip(row.item_code)
        desc_clean == Strip(row.item_description)
    IN  \/ code_clean = "" /\ desc_clean = ""
        \/ Lower(code_clean) \in Placeholders
        \/ Lower(desc_clean) \in Placeholders

\* get_organization_by_name, get_division_by_name (by name only).
get_organization_by_name(name) == {o \in organizations : o.name = name}
get_division_by_name(name) == {d \in divisions : d.name = name}

\* get_item_by_code_region_org
get_item_by_code_region_org(item_code, region, organization) ==
    {it \in items : it.item_code = item_code /\ it.region = region
                    /\ it.organization = organization}

\* The reads of create_item_from_parsed_data up to its next write: the
\* write it goes to next, and what the session has loaded for it.
Resolve(row) ==
    LET orgs == get_organization_by_name(OrgNameOf(row))
        org == CHOOSE o \in orgs : TRUE
        divs == get_division_by_name(row.division)
        div == CHOOSE d \in divs : TRUE
        found == get_item_by_code_region_org(row.item_code, row.region, org.name)
        none == [pc |-> "", org |-> 0, division |-> 0, loaded |-> NoItem]
    IN  IF orgs = {} THEN [none EXCEPT !.pc = "org_create"]
        ELSE IF row.region # ""
                /\ ~\E r \in regions : r.organization_id = org.org_id /\ r.name = row.region
        THEN [none EXCEPT !.pc = "region_create", !.org = org.org_id]
        ELSE IF divs = {}
        THEN [none EXCEPT !.pc = "division_create", !.org = org.org_id]
        ELSE IF found # {}
        THEN [pc |-> "item_update", org |-> org.org_id, division |-> div.division_id,
              loaded |-> CHOOSE it \in found : TRUE]
        ELSE [pc |-> "item_create", org |-> org.org_id, division |-> div.division_id,
              loaded |-> NoItem]

\* The worker goes to the write Resolve found.
Goto(p, row, r) ==
    proc' = [proc EXCEPT ![p].pc = r.pc, ![p].row = row, ![p].org = r.org,
                         ![p].division = r.division, ![p].loaded = r.loaded]

\* A loop whose except branches forget the row they caught.
NextRowForgettingErrors(p, counter) ==
    proc' = [proc EXCEPT ![p].pc = "row", ![p].row = NoRow, ![p].idx = @ + 1,
                         ![p].org = 0, ![p].division = 0, ![p].loaded = NoItem,
                         ![p].refetched = FALSE, ![p].made = {},
                         ![p].count = IF counter = "count" THEN @ + 1 ELSE @,
                         ![p].skipped = IF counter = "skipped" THEN @ + 1 ELSE @]

\* The row is over: the loop takes the next one.
NextRow(p, counter) ==
    proc' = [proc EXCEPT ![p].pc = "row", ![p].row = NoRow, ![p].idx = @ + 1,
                         ![p].org = 0, ![p].division = 0, ![p].loaded = NoItem,
                         ![p].refetched = FALSE, ![p].made = {},
                         ![p].count = IF counter = "count" THEN @ + 1 ELSE @,
                         ![p].skipped = IF counter = "skipped" THEN @ + 1 ELSE @,
                         ![p].errors = IF counter = "errors" THEN @ + 1 ELSE @]

\* The except branches of the loop: the error is recorded, the session
\* rolled back, and the loop goes on.
RowError(p, step, error) ==
    /\ NextRow(p, "errors")
    /\ lastOp' = [op |-> "import_row", res |-> error, step |-> step]

\* POST /items/import up to the loop: in replace mode delete_all_items
\* empties the item master, in its own transaction.
ImportStart(p, mode) ==
    /\ Free(p)
    /\ LET call == [IdleProc EXCEPT !.op = "import", !.mode = mode, !.pc = "row"]
           referenced == \/ \E l \in lines : l.item_id \in ItemIds
                         \/ \E x \in special_items : x.item_id \in ItemIds
       IN  IF mode = "replace" /\ ForeignKeys /\ referenced
           THEN /\ UNCHANGED <<items, proc>>
                /\ lastOp' = [op |-> "import", res |-> "IntegrityError", mode |-> mode,
                              processed |-> 0, skipped |-> 0, errors |-> 0]
           ELSE /\ items' = IF mode = "replace" THEN {} ELSE items
                /\ proc' = [proc EXCEPT ![p] = call]
                /\ UNCHANGED lastOp
    /\ UNCHANGED <<organizations, regions, divisions, special_items, estimations, lines,
                   requests, dialect, now, calc>>

\* One turn of the loop, over a file of at most cap parsed rows: a row
\* without rate is skipped, an invalid row is an error, any other row is
\* handed to create_item_from_parsed_data.
ImportRow(p, row, cap) ==
    /\ proc[p].pc = "row"
    /\ proc[p].idx < cap
    /\ IF row.rate = None
       THEN NextRow(p, "skipped") /\ UNCHANGED lastOp
       ELSE IF InvalidRow(row)
       THEN /\ NextRow(p, "errors")
            /\ lastOp' = [op |-> "import_row", res |-> "ValueError", step |-> "row",
                          row |-> row]
       ELSE Goto(p, row, Resolve(row)) /\ UNCHANGED lastOp
    /\ UNCHANGED <<catalog, special_items, estimations, lines, requests, dialect, now,
                   calc>>

\* float(rate_val) of the parsers, on the cells of the model: hundredths,
\* None for a cell that is empty, "-" or not a number.
ParseRate(cell) ==
    CASE cell = "1.07" -> Some(107)
      [] cell = "2.00" -> Some(200)
      [] cell = "2.0" -> Some(200)
      [] cell = "0" -> Some(0)
      [] cell = "0.0" -> Some(0)
      [] OTHER -> None

\* clean_str and clean_unit of the parsers.
clean_str(value) ==
    LET t == Strip(value) IN IF Lower(t) \in Placeholders THEN "" ELSE t
clean_unit(value) ==
    LET t == Strip(value)
    IN  IF t = "" \/ Lower(t) \in Placeholders THEN None ELSE Some(t)

\* One turn of the loop of parse_item_master_csv_text: the entry of a file
\* row, None for a row left out for having neither code nor description.
ParseLinearRow(frow) ==
    LET entry == [division |-> clean_str(frow.division),
                  item_code |-> clean_str(frow.item_code),
                  item_description |-> clean_str(frow.item_description),
                  unit |-> clean_unit(frow.unit),
                  rate |-> ParseRate(frow.rate),
                  region |-> clean_str(frow.region),
                  organization |-> ""]
    IN  IF entry.item_code = "" /\ entry.item_description = "" THEN None
        ELSE Some(entry)

\* A file row the parser leaves out: the loop never sees it. The worker
\* remembers the rows of its file that were left out.
ImportDroppedRow(p, frow) ==
    /\ proc[p].pc = "row"
    /\ proc[p].idx + Len(proc[p].dropped) < MaxRows
    /\ ParseLinearRow(frow) = None
    /\ proc' = [proc EXCEPT ![p].dropped = Append(@, frow)]
    /\ UNCHANGED <<catalog, special_items, estimations, lines, requests, dialect, now,
                   lastOp, calc>>

\* create_organization: the insert fails on the unique name.
ImportOrgCreate(p) ==
    /\ proc[p].pc = "org_create"
    /\ LET name == OrgNameOf(proc[p].row)
       IN  IF \E o \in organizations : o.name = name
           THEN /\ UNCHANGED organizations
                /\ RowError(p, "org_create", "IntegrityError")
           ELSE /\ organizations' = organizations \cup
                       {[org_id |-> NextId({o.org_id : o \in organizations}),
                         name |-> name]}
                /\ proc' = [proc EXCEPT ![p].pc = "resolve",
                                          ![p].made = @ \cup {"organization"}]
                /\ UNCHANGED lastOp
    /\ UNCHANGED <<regions, divisions, items, special_items, estimations, lines,
                   requests, dialect, now, calc>>

\* create_region: the insert fails on uq_org_region_name, and the error is
\* the row's.
ImportRegionCreate(p) ==
    /\ proc[p].pc = "region_create"
    /\ LET region == [organization_id |-> proc[p].org, name |-> proc[p].row.region]
       IN  IF region \in regions
           THEN /\ UNCHANGED regions
                /\ RowError(p, "region_create", "IntegrityError")
           ELSE /\ regions' = regions \cup {region}
                /\ proc' = [proc EXCEPT ![p].pc = "resolve",
                                          ![p].made = @ \cup {"region"}]
                /\ UNCHANGED lastOp
    /\ UNCHANGED <<organizations, divisions, items, special_items, estimations, lines,
                   requests, dialect, now, calc>>

\* An import that lets the IntegrityError of create_division reach the loop.
DivisionIntegrityErrorRaised(p) ==
    RowError(p, "division_create", "IntegrityError")

\* except IntegrityError around create_division: the session is rolled back
\* and the division fetched again; the row goes on.
DivisionIntegrityError(p) ==
    /\ proc' = [proc EXCEPT ![p].pc = "resolve", ![p].refetched = TRUE]
    /\ UNCHANGED lastOp

\* The divisions table without the unique constraint on name.
NoUqDivisionName(tbl, name) == FALSE

\* divisions.name is unique.
ViolatesUqDivisionName(tbl, name) ==
    \E d \in tbl : d.name = name

\* create_division inside try: the insert fails on the unique name when
\* another transaction has stored the division since the lookup.
ImportDivisionCreate(p) ==
    /\ proc[p].pc = "division_create"
    /\ LET name == proc[p].row.division
       IN  IF ViolatesUqDivisionName(divisions, name)
           THEN /\ UNCHANGED divisions
                /\ DivisionIntegrityError(p)
           ELSE /\ divisions' = divisions \cup
                       {[division_id |-> NextId(DivisionIds), name |-> name,
                         organization_id |-> proc[p].org]}
                /\ proc' = [proc EXCEPT ![p].pc = "resolve",
                                          ![p].made = @ \cup {"division"}]
                /\ UNCHANGED lastOp
    /\ UNCHANGED <<organizations, regions, items, special_items, estimations, lines,
                   requests, dialect, now, calc>>

\* The reads that follow a write of create_item_from_parsed_data.
ImportResolve(p) ==
    /\ proc[p].pc = "resolve"
    /\ Goto(p, proc[p].row, Resolve(proc[p].row))
    /\ UNCHANGED <<catalog, special_items, estimations, lines, requests, dialect, now,
                   lastOp, calc>>

\* The update path assigning every column but division_id.
UpdateFromRowKeepingDivision(item, row, division_id) ==
    [item EXCEPT !.item_description = row.item_description,
                 !.unit = row.unit,
                 !.rate = row.rate]

\* The update path: the columns assigned to the loaded item.
UpdateFromRow(item, row, division_id) ==
    [item EXCEPT !.item_description = row.item_description,
                 !.unit = row.unit,
                 !.rate = row.rate,
                 !.division_id = division_id]

\* The columns whose assigned value differs from the loaded one: the SET
\* list of the UPDATE the session flushes.
Dirty(old, new) ==
    {c \in {"item_description", "unit", "rate", "division_id"} : old[c] # new[c]}

\* The update path's commit: UPDATE items SET <dirty columns> WHERE item_id.
ImportItemUpdate(p) ==
    /\ proc[p].pc = "item_update"
    /\ LET old == proc[p].loaded
           new == UpdateFromRow(old, proc[p].row, proc[p].division)
           dirty == Dirty(old, new)
       IN  IF dirty = {}
           THEN /\ UNCHANGED items
                /\ proc' = [proc EXCEPT ![p].pc = "item_refresh", ![p].item = old.item_id]
                /\ UNCHANGED lastOp
           ELSE IF old.item_id \notin ItemIds
           THEN /\ UNCHANGED items
                /\ RowError(p, "item_update", "StaleDataError")
           ELSE IF ForeignKeys /\ "division_id" \in dirty /\ new.division_id \notin DivisionIds
           THEN /\ UNCHANGED items
                /\ RowError(p, "item_update", "IntegrityError")
           ELSE /\ LET cur == ItemById(old.item_id)
                   IN  items' = (items \ {cur}) \cup
                           {[c \in DOMAIN cur |-> IF c \in dirty THEN new[c] ELSE cur[c]]}
                /\ proc' = [proc EXCEPT ![p].pc = "item_refresh", ![p].item = old.item_id]
                /\ UNCHANGED lastOp
    /\ UNCHANGED <<organizations, regions, divisions, special_items, estimations, lines,
                   requests, dialect, now, calc>>

\* The create path: create_item, whose insert fails on the unique key.
ImportItemCreate(p) ==
    /\ proc[p].pc = "item_create"
    /\ LET row == proc[p].row
           obj == [item_id |-> NextId(ItemIds),
                   division_id |-> proc[p].division,
                   item_code |-> Strip(row.item_code),
                   item_description |-> Strip(row.item_description),
                   unit |-> row.unit,
                   rate |-> row.rate,
                   region |-> row.region,
                   organization |-> OrgNameOf(row)]
       IN  IF \/ ViolatesUqItem(items, obj)
              \/ (ForeignKeys /\ obj.division_id \notin DivisionIds)
           THEN /\ UNCHANGED items
                /\ RowError(p, "item_create", "IntegrityError")
           ELSE /\ items' = items \cup {obj}
                /\ proc' = [proc EXCEPT ![p].pc = "item_refresh", ![p].item = obj.item_id]
                /\ UNCHANGED lastOp
    /\ UNCHANGED <<organizations, regions, divisions, special_items, estimations, lines,
                   requests, dialect, now, calc>>

\* db.refresh(item) after the commit: the row counts when the item is read
\* back.
ImportItemRefresh(p) ==
    /\ proc[p].pc = "item_refresh"
    /\ IF proc[p].item \in ItemIds
       THEN NextRow(p, "count") /\ UNCHANGED lastOp
       ELSE RowError(p, "item_refresh", "InvalidRequestError")
    /\ UNCHANGED <<catalog, special_items, estimations, lines, requests, dialect, now,
                   calc>>

\* The end of the file: the final commit and the report.
ImportFinish(p) ==
    /\ proc[p].pc = "row"
    /\ lastOp' = [op |-> "import", res |-> "ok", mode |-> proc[p].mode,
                  processed |-> proc[p].count, skipped |-> proc[p].skipped,
                  errors |-> proc[p].errors, rows |-> proc[p].idx,
                  dropped |-> proc[p].dropped]
    /\ proc' = [proc EXCEPT ![p] = IdleProc]
    /\ UNCHANGED <<catalog, special_items, estimations, lines, requests, dialect, now,
                   calc>>

(***************************************************************************)
(* SpecImport: imports served by concurrent workers.                       *)
(***************************************************************************)
NextImport ==
    \/ \E p \in Procs, mode \in {"append", "replace"} : ImportStart(p, mode)
    \/ \E p \in Procs, row \in Rows : ImportRow(p, row, MaxRows)
    \/ \E p \in Procs : ImportOrgCreate(p)
    \/ \E p \in Procs : ImportRegionCreate(p)
    \/ \E p \in Procs : ImportDivisionCreate(p)
    \/ \E p \in Procs : ImportResolve(p)
    \/ \E p \in Procs : ImportItemUpdate(p)
    \/ \E p \in Procs : ImportItemCreate(p)
    \/ \E p \in Procs : ImportItemRefresh(p)
    \/ \E p \in Procs : ImportFinish(p)

SpecImport == Init /\ [][NextImport]_vars

\* C29: imports resolve a division by its name alone: there is never more
\* than one Division of a name, no import step changes or removes a stored
\* Division (its organization_id stays), and the Item a row creates points
\* to the one Division of the row's name, whatever organization owns it.
C29_DivisionGlobalByName ==
    [][/\ \A a \in divisions' : \A b \in divisions' : a.name = b.name => a = b
       /\ \A d \in divisions : d \in divisions'
       /\ \A p \in Procs :
              (proc[p].pc = "item_create" /\ proc'[p].pc = "item_refresh") =>
                  \A it \in items' \ items :
                      \E d \in divisions' :
                          /\ d.name = proc[p].row.division
                          /\ d.division_id = it.division_id]_vars

\* An imported Item of one organization under a Division that belongs to
\* another organization, both organizations stored.
C29_Witness ==
    \E it \in items : \E d \in divisions : \E o \in organizations :
        /\ it.division_id = d.division_id
        /\ d.organization_id = o.org_id
        /\ o.name # it.organization
        /\ \E o2 \in organizations : o2.name = it.organization

(***************************************************************************)
(* SpecImportSeq: imports served one after the other.                      *)
(***************************************************************************)
NextImportSeq ==
    \/ \E p \in Procs, mode \in {"append", "replace"} : Quiet(p) /\ ImportStart(p, mode)
    \/ \E p \in Procs, row \in Rows : ImportRow(p, row, MaxRows)
    \/ \E p \in Procs : ImportOrgCreate(p)
    \/ \E p \in Procs : ImportRegionCreate(p)
    \/ \E p \in Procs : ImportDivisionCreate(p)
    \/ \E p \in Procs : ImportResolve(p)
    \/ \E p \in Procs : ImportItemUpdate(p)
    \/ \E p \in Procs : ImportItemCreate(p)
    \/ \E p \in Procs : ImportItemRefresh(p)
    \/ \E p \in Procs : ImportFinish(p)

SpecImportSeq == Init /\ [][NextImportSeq]_vars

(***************************************************************************)
(* Properties of the import.                                               *)
(***************************************************************************)
\* C1: after any sequence of imports, sequential or concurrent, in append
\* or replace mode, no two Items share (item_code, region, organization).
C1_UniqueBusinessKey ==
    \A a \in items : \A b \in items : ItemKey(a) = ItemKey(b) => a = b

\* Two imports raced on one business key: the insert of the later one was
\* refused, and the item of the earlier one is stored.
C1_Witness ==
    /\ lastOp.op = "import_row"
    /\ lastOp.step = "item_create"
    /\ lastOp.res = "IntegrityError"
    /\ items # {}

\* The business key of a parsed row.
RowKey(row) == <<row.item_code, row.region, OrgNameOf(row)>>

\* C2: create_item_from_parsed_data is idempotent per business key: a row
\* imported after a row of the same (item_code, region, organization)
\* leaves exactly one Item with that key, keeps its item_id, and stores the
\* later row's description, unit, rate and division.
C2_UpsertPerBusinessKey ==
    [][\A p \in Procs :
          (proc[p].pc \in {"item_update", "item_create"}
           /\ proc'[p].pc = "item_refresh") =>
              LET row == proc[p].row
                  before == {it \in items : ItemKey(it) = RowKey(row)}
                  after == {it \in items' : ItemKey(it) = RowKey(row)}
              IN  /\ Cardinality(after) = 1
                  /\ \A it \in after :
                        /\ it.item_description = row.item_description
                        /\ it.unit = row.unit
                        /\ it.rate = row.rate
                        /\ \E d \in divisions' : /\ d.division_id = it.division_id
                                                 /\ d.name = row.division
                        /\ \A b \in before : b.item_id = it.item_id]_vars

\* A second row of a stored business key was written over the item, and
\* its description, unit, rate and division all differ from the first's.
C2_Witness ==
    \E p \in Procs :
        /\ proc[p].pc = "item_refresh"
        /\ proc[p].loaded # NoItem
        /\ proc[p].loaded.item_id \in ItemIds
        /\ LET old == proc[p].loaded
               cur == ItemById(old.item_id)
           IN  /\ ItemKey(cur) = RowKey(proc[p].row)
               /\ cur.item_description # old.item_description
               /\ cur.unit # old.unit
               /\ cur.rate # old.rate
               /\ cur.division_id # old.division_id
               /\ cur.rate = proc[p].row.rate

\* C22: any two special-item requests carry distinct item codes, also when
\* they were submitted within one millisecond of the clock, so that the
\* Items approve builds from requests of one region and organization never
\* share the business key.
C22_DistinctItemCodes ==
    \A a \in requests : \A b \in requests :
        a.request_id # b.request_id =>
            /\ a.item_code # b.item_code
            /\ ItemKey(ItemFromRequest(a, 0)) # ItemKey(ItemFromRequest(b, 0))

(***************************************************************************)
(* Deletions from the item master (app/routers/items.py, app/crud.py,      *)
(* app/routers/organizations.py).                                          *)
(***************************************************************************)
\* The lines that reference item item_id.
LinesOfItem(item_id) == {l \in lines : l.item_id = item_id}

\* The 409 of delete_item: its detail is a fixed sentence, and carries no
\* count.
DeleteItemConflict(item_id) ==
    lastOp' = [op |-> "delete_item", res |-> "409", arg |-> item_id, count |-> None]

\* DELETE /items/{item_id}. The session first detaches the rows of the
\* relationships Item.estimation_lines and Item.special_item by setting
\* their item_id to NULL, which the NOT NULL columns refuse on every engine;
\* special_item_requests.item_id is protected by its foreign key only.
DeleteItem(item_id) ==
    /\ IF item_id \notin ItemIds
       THEN /\ UNCHANGED items
            /\ lastOp' = [op |-> "delete_item", res |-> "404", arg |-> item_id,
                          count |-> None]
       ELSE IF \/ LinesOfItem(item_id) # {}
               \/ \E x \in special_items : x.item_id = item_id
               \/ (ForeignKeys /\ \E r \in requests : r.item_id = Some(item_id))
       THEN /\ UNCHANGED items
            /\ DeleteItemConflict(item_id)
       ELSE /\ items' = items \ {ItemById(item_id)}
            /\ lastOp' = [op |-> "delete_item", res |-> "ok", arg |-> item_id,
                          count |-> None]
    /\ UNCHANGED <<organizations, regions, divisions, special_items, estimations, lines,
                   requests, dialect, now, proc, calc>>

\* What the session deletes with the divisions division_ids (cascade
\* "all, delete-orphan" of Division.items and Division.special_items), and
\* whether the flush is refused.
DivisionCascade(division_ids) ==
    LET its == {it \in items : it.division_id \in division_ids}
        ids == {it.item_id : it \in its}
        sps == {x \in special_items : x.division_id \in division_ids}
    IN  [items |-> its,
         special_items |-> sps,
         refused |->
            \/ \E l \in lines : l.item_id \in ids
            \/ \E x \in special_items \ sps : x.item_id \in ids
            \/ /\ ForeignKeys
               /\ \E r \in requests :
                     \/ r.division_id \in division_ids
                     \/ r.item_id # None /\ Val(r.item_id) \in ids
                     \/ /\ r.special_item_id # None
                        /\ Val(r.special_item_id) \in {x.special_item_id : x \in sps}]

\* DELETE /items/divisions/{division_id} -> crud.delete_division
DeleteDivision(division_id) ==
    /\ IF division_id \notin DivisionIds
       THEN /\ UNCHANGED <<divisions, items, special_items>>
            /\ Done("delete_division", "404")
       ELSE LET c == DivisionCascade({division_id})
            IN  IF c.refused
                THEN /\ UNCHANGED <<divisions, items, special_items>>
                     /\ Done("delete_division", "IntegrityError")
                ELSE /\ divisions' = {d \in divisions : d.division_id # division_id}
                     /\ items' = items \ c.items
                     /\ special_items' = special_items \ c.special_items
                     /\ Done("delete_division", "ok")
    /\ UNCHANGED <<organizations, regions, estimations, lines, requests, dialect, now,
                   proc, calc>>

\* DELETE /orgs/{org_id} -> crud.delete_organization: the organization's
\* divisions and regions go with it.
DeleteOrganization(org_id) ==
    /\ IF ~\E o \in organizations : o.org_id = org_id
       THEN /\ UNCHANGED <<organizations, regions, divisions, items, special_items>>
            /\ Done("delete_organization", "404")
       ELSE LET c == DivisionCascade({d.division_id : d \in
                                         {x \in divisions : x.organization_id = org_id}})
            IN  IF c.refused
                THEN /\ UNCHANGED <<organizations, regions, divisions, items,
                                    special_items>>
                     /\ Done("delete_organization", "IntegrityError")
                ELSE /\ organizations' = {o \in organizations : o.org_id # org_id}
                     /\ regions' = {r \in regions : r.organization_id # org_id}
                     /\ divisions' = {d \in divisions : d.organization_id # org_id}
                     /\ items' = items \ c.items
                     /\ special_items' = special_items \ c.special_items
                     /\ Done("delete_organization", "ok")
    /\ UNCHANGED <<estimations, lines, requests, dialect, now, proc, calc>>

(***************************************************************************)
(* SpecCatalog: the item master maintained (items and divisions created    *)
(* and deleted, the master replaced by an import) while estimation lines   *)
(* reference it.                                                           *)
(***************************************************************************)
NextCatalog ==
    \/ CreateEstimation(1)
    \/ CreateDivision("Earthwork", 1)
    \/ \E d \in ItemPayloads : CreateItem(d)
    \/ \E d \in LinePayloads : AddLine(1, d, MaxLinesEdit)
    \/ \E i \in 1..MaxItems : DeleteItem(i)
    \/ DeleteDivision(1)
    \/ \E o \in 1..2 : DeleteOrganization(o)
    \/ \E p \in Procs : ImportStart(p, "replace")
    \/ \E p \in Procs : ImportFinish(p)

SpecCatalog == Init /\ [][NextCatalog]_vars

\* C11: deleting an Item that EstimationLines reference fails with an error
\* that carries the count of the referencing lines, and leaves the Item and
\* those lines unchanged.
C11_DeleteReferencedItem ==
    (lastOp.op = "delete_item" /\ LinesOfItem(lastOp.arg) # {}) =>
        /\ lastOp.res = "409"
        /\ lastOp.arg \in ItemIds
        /\ lastOp.count = Some(Cardinality(LinesOfItem(lastOp.arg)))

\* C17: in every reachable state each EstimationLine's item_id refers to an
\* existing Item: no deletion (of an item, a division, an organization, or
\* of the whole master by a replace-mode import) removes a referenced Item.
C17_LinesReferToItems ==
    \A l \in lines : l.item_id \in ItemIds

(***************************************************************************)
(* SpecParsed: create_item_from_parsed_data applied, through the loop of   *)
(* import_items, to any ItemParsed value and not only to the rows the      *)
(* parsers emit: texts with surrounding blanks, capitals, placeholders.    *)
(***************************************************************************)
ParsedRows ==
    [division : {"Earthwork"},
     item_code : {"", "  ", "-", " - ", "None", "NULL", " null ", "01/01", " 01/01 "},
     item_description : {"", "  ", "none", " None ", "Earth filling", " Earth filling "},
     unit : {Some("cum")},
     rate : {Some(107)},
     region : {"Dhaka Zone"},
     organization : {""}]

NextParsed ==
    \/ \E p \in Procs : Quiet(p) /\ ImportStart(p, "append")
    \/ \E p \in Procs, row \in ParsedRows : ImportRow(p, row, MaxRows)
    \/ \E p \in Procs : ImportRegionCreate(p)
    \/ \E p \in Procs : ImportDivisionCreate(p)
    \/ \E p \in Procs : ImportResolve(p)
    \/ \E p \in Procs : ImportItemUpdate(p)
    \/ \E p \in Procs : ImportItemCreate(p)
    \/ \E p \in Procs : ImportItemRefresh(p)
    \/ \E p \in Procs : ImportFinish(p)

SpecParsed == Init /\ [][NextParsed]_vars

\* The rows C13 names: item_code and item_description both blank after
\* trimming, or either of them none, null or - in any case.
C13_Invalid(row) ==
    \/ Strip(row.item_code) = "" /\ Strip(row.item_description) = ""
    \/ Strip(row.item_code) \in {"-", "none", "None", "NULL", "null"}
    \/ Strip(row.item_description) \in {"-", "none", "None", "NULL", "null"}

\* C13: create_item_from_parsed_data raises a validation error, and creates
\* or changes no Organization, Region, Division or Item, whenever item_code
\* and item_description are both blank after trimming or either of them is
\* none, null or - in any case: no such row is taken on, and the step that
\* refuses a row is a ValueError on such a row that leaves the catalog.
C13_ValidationError ==
    [][\A p \in Procs :
          /\ (proc[p].pc = "row" /\ proc'[p].pc \notin {"row", "idle"}) =>
                 ~C13_Invalid(proc'[p].row)
          /\ (proc[p].pc = "row" /\ proc'[p].errors = proc[p].errors + 1) =>
                 /\ lastOp'.op = "import_row"
                 /\ lastOp'.res = "ValueError"
                 /\ C13_Invalid(lastOp'.row)
                 /\ UNCHANGED catalog]_vars

\* A row whose code is a padded, capitalised placeholder was refused while
\* the catalog held an item.
C13_Witness ==
    /\ lastOp.op = "import_row"
    /\ lastOp.res = "ValueError"
    /\ lastOp.row.item_code = "NULL"
    /\ lastOp.row.item_description = " Earth filling "
    /\ items # {}

FileRows ==
    [division : {"Earthwork"},
     item_code : {"-", " 01/01 "},
     item_description : {"", "Earth filling"},
     unit : {"cum"},
     rate : {"1.07", "abc"},
     region : {"Dhaka Zone"}]

NextFile ==
    \/ \E p \in Procs : Quiet(p) /\ ImportStart(p, "append")
    \/ \E p \in Procs, frow \in FileRows : ImportDroppedRow(p, frow)
    \/ \E p \in Procs, frow \in FileRows :
           /\ ParseLinearRow(frow) # None
           /\ ImportRow(p, Val(ParseLinearRow(frow)), MaxRows)
    \/ \E p \in Procs : ImportRegionCreate(p)
    \/ \E p \in Procs : ImportDivisionCreate(p)
    \/ \E p \in Procs : ImportResolve(p)
    \/ \E p \in Procs : ImportItemUpdate(p)
    \/ \E p \in Procs : ImportItemCreate(p)
    \/ \E p \in Procs : ImportItemRefresh(p)
    \/ \E p \in Procs : ImportFinish(p)

SpecFile == Init /\ [][NextFile]_vars

\* The file rows of C14 among rows: item_code "-" and an empty description.
RECURSIVE C14_Placeholder(_)
C14_Placeholder(rows) ==
    IF rows = <<>> THEN 0
    ELSE (IF Head(rows).item_code = "-" /\ Head(rows).item_description = ""
          THEN 1 ELSE 0) + C14_Placeholder(Tail(rows))

\* C14: a file row with item_code "-" and an empty description is skipped
\* and counted in the import report, and no Item is stored for it: the
\* report counts every such row of the file besides the rows the loop saw.
C14_PlaceholderRowCounted ==
    (lastOp.op = "import" /\ lastOp.res = "ok") =>
        /\ lastOp.processed + lastOp.skipped + lastOp.errors
               = lastOp.rows + C14_Placeholder(lastOp.dropped)
        /\ \A it \in items : it.item_code # "-"

(***************************************************************************)
(* SpecBatch: two workers import in append mode, the first a file of at    *)
(* most MaxBatch rows and the others files of at most MaxRows rows, all of *)
(* one division that no table holds yet.                                   *)
(***************************************************************************)
BatchRows ==
    {[division |-> "Earthwork", item_code |-> "01/01",
      item_description |-> "Earth filling", unit |-> Some("cum"), rate |-> Some(107),
      region |-> "Dhaka Zone", organization |-> ""],
     [division |-> "Earthwork", item_code |-> "02/05",
      item_description |-> "Earth filling", unit |-> Some("cum"), rate |-> Some(107),
      region |-> "Dhaka Zone", organization |-> ""],
     [division |-> "Earthwork", item_code |-> "02/05",
      item_description |-> "Earth filling", unit |-> Some("cum"), rate |-> Some(107),
      region |-> "Sylhet Zone", organization |-> ""],
     [division |-> "Earthwork", item_code |-> "02/05",
      item_description |-> "Earth filling", unit |-> Some("cum"), rate |-> None,
      region |-> "Dhaka Zone", organization |-> ""]}

NextBatch ==
    \/ \E p \in Procs : ImportStart(p, "append")
    \/ \E p \in Procs, row \in BatchRows :
           ImportRow(p, row, IF p = 1 THEN MaxBatch ELSE MaxRows)
    \/ \E p \in Procs : ImportRegionCreate(p)
    \/ \E p \in Procs : ImportDivisionCreate(p)
    \/ \E p \in Procs : ImportResolve(p)
    \/ \E p \in Procs : ImportItemUpdate(p)
    \/ \E p \in Procs : ImportItemCreate(p)
    \/ \E p \in Procs : ImportItemRefresh(p)
    \/ \E p \in Procs : ImportFinish(p)

SpecBatch == Init /\ [][NextBatch]_vars

\* C15: every parsed row is accounted exactly once: at each turn of the
\* loop, and in the report, processed + skipped + errors is the number of
\* rows the loop has taken; a row that fails is counted as an error only,
\* and leaves the loop ready for the row after it.
C15_EveryRowAccounted ==
    [][/\ \A p \in Procs :
              proc'[p].idx = proc'[p].count + proc'[p].skipped + proc'[p].errors
       /\ \A p \in Procs :
              (proc[p].op = "import" /\ proc'[p].op = "import") =>
                  /\ proc'[p].idx \in {proc[p].idx, proc[p].idx + 1}
                  /\ proc'[p].count >= proc[p].count
                  /\ proc'[p].skipped >= proc[p].skipped
                  /\ proc'[p].errors >= proc[p].errors
       /\ \A p \in Procs :
              proc'[p].errors > proc[p].errors =>
                  /\ proc'[p].pc = "row"
                  /\ proc'[p].count = proc[p].count
                  /\ proc'[p].skipped = proc[p].skipped
       /\ (lastOp' # lastOp /\ lastOp'.op = "import" /\ lastOp'.res = "ok") =>
              lastOp'.processed + lastOp'.skipped + lastOp'.errors = lastOp'.rows]_vars

\* The first row of a file failed, and the row after it was stored.
C15_Witness ==
    \E p \in Procs :
        /\ proc[p].errors = 1
        /\ proc[p].idx = 1
        /\ proc[p].pc = "item_refresh"
        /\ \E it \in items : ItemKey(it) = RowKey(proc[p].row)

\* The division named name, as a set of ids.
C19_DivisionNamed(name) == {d.division_id : d \in {x \in divisions : x.name = name}}

\* C19: when two concurrent imports name the same new Division, the one
\* whose insert is refused retries with a fresh lookup: its step is no
\* error of the row, exactly one Division of that name is stored, the row
\* goes on with that Division, and the Item it stores references it.
C19_DivisionRace ==
    [][/\ \A p \in Procs :
              (proc[p].pc = "division_create" /\ proc'[p] # proc[p]) =>
                  /\ proc'[p].pc = "resolve"
                  /\ proc'[p].errors = proc[p].errors
                  /\ proc'[p].idx = proc[p].idx
                  /\ Cardinality({d \in divisions' : d.name = proc[p].row.division}) = 1
                  /\ (\E d \in divisions : d.name = proc[p].row.division) =>
                         divisions' = divisions
       /\ \A p \in Procs :
              (proc[p].pc = "resolve" /\ proc[p].refetched /\ proc'[p] # proc[p]) =>
                  /\ proc'[p].pc \in {"item_update", "item_create"}
                  /\ {proc'[p].division} = C19_DivisionNamed(proc[p].row.division)
       /\ \A p \in Procs :
              (proc[p].pc \in {"item_update", "item_create"} /\ proc[p].refetched
               /\ proc'[p].pc = "item_refresh") =>
                  \E it \in items' :
                      /\ it.item_id = proc'[p].item
                      /\ ItemKey(it) = RowKey(proc[p].row)
                      /\ {it.division_id} = C19_DivisionNamed(proc[p].row.division)]_vars

\* Two imports raced on a new Division: the one that lost has stored its
\* row without error, and two Items reference the one Division.
C19_Witness ==
    \E p \in Procs :
        /\ proc[p].refetched
        /\ proc[p].pc = "item_refresh"
        /\ proc[p].errors = 0
        /\ Cardinality(divisions) = 1
        /\ Cardinality(items) = 2
        /\ \A it \in items : {it.division_id} = C19_DivisionNamed(proc[p].row.division)
        /\ \E it \in items : it.item_id = proc[p].item /\ ItemKey(it) = RowKey(proc[p].row)

\* C20: when two concurrent imports name the same new Region of one
\* Organization, the duplicate creation is caught and treated as the
\* Region existing: the step is no error of the row, which goes on, and
\* exactly one Region of that name is stored.
C20_RegionRace ==
    [][\A p \in Procs :
           (proc[p].pc = "region_create" /\ proc'[p] # proc[p]) =>
               /\ proc'[p].errors = proc[p].errors
               /\ proc'[p].pc = "resolve"
               /\ [organization_id |-> proc[p].org, name |-> proc[p].row.region]
                      \in regions']_vars

\* C21: when two concurrent imports upsert rows of one business key that no
\* Item holds yet, the refused insert of the later one is not the row's
\* error: the row goes on to fetch the Item again and update it, and
\* exactly one Item of the key is stored.
C21_ItemRace ==
    [][\A p \in Procs :
           (/\ proc[p].pc = "item_create"
            /\ proc'[p] # proc[p]
            /\ \E it \in items : ItemKey(it) = RowKey(proc[p].row)) =>
               /\ proc'[p].errors = proc[p].errors
               /\ proc'[p].pc \in {"resolve", "item_update", "item_refresh"}
               /\ Cardinality({it \in items' : ItemKey(it) = RowKey(proc[p].row)}) = 1]_vars

(***************************************************************************)
(* SpecUnit: two workers import in append mode rows that share a business  *)
(* key under different divisions, and a row of an organization no table    *)
(* holds yet; the first worker's file has at most MaxBatch rows.           *)
(***************************************************************************)
UnitRows == {row \in Rows : row.rate # None}

NextUnit ==
    \/ \E p \in Procs : ImportStart(p, "append")
    \/ \E p \in Procs, row \in UnitRows :
           ImportRow(p, row, IF p = 1 THEN MaxBatch ELSE MaxRows)
    \/ \E p \in Procs : ImportOrgCreate(p)
    \/ \E p \in Procs : ImportRegionCreate(p)
    \/ \E p \in Procs : ImportDivisionCreate(p)
    \/ \E p \in Procs : ImportResolve(p)
    \/ \E p \in Procs : ImportItemUpdate(p)
    \/ \E p \in Procs : ImportItemCreate(p)
    \/ \E p \in Procs : ImportItemRefresh(p)
    \/ \E p \in Procs : ImportFinish(p)

SpecUnit == Init /\ [][NextUnit]_vars

\* C18: a row of a batch import is one unit of work: when the row fails
\* after it resolved its Organization, Region or Division, nothing the row
\* created persists (the organization, region or division it inserted is
\* stored no more), and the items of the rows before it persist.
C18_RowIsUnitOfWork ==
    [][\A p \in Procs :
           (proc'[p].errors > proc[p].errors /\ proc[p].made # {}) =>
               LET row == proc[p].row
               IN  /\ "organization" \in proc[p].made =>
                          ~\E o \in organizations' : o.name = OrgNameOf(row)
                   /\ "region" \in proc[p].made =>
                          [organization_id |-> proc[p].org, name |-> row.region]
                              \notin regions'
                   /\ "division" \in proc[p].made =>
                          ~\E d \in divisions' : d.name = row.division
                   /\ items' = items]_vars

(***************************************************************************)
(* The pivoted export (export_items_csv of app/routers/items.py) and its   *)
(* parser (parse_item_master_pivot_csv_text of app/services/parsers.py).   *)
(***************************************************************************)
region_headers ==
    <<"Dhaka Zone", "Mymensingh Zone", "Comilla Zone", "Sylhet Zone", "Khulna Zone",
      "Barisal Zone", "Gopalganj Zone", "Rajshahi Zone", "Rangpur Zone",
      "Chattogram Zone">>

\* The export's spelling of a region.
ExportRegion(region) == IF region = "Cumilla Zone" THEN "Comilla Zone" ELSE region

\* What csv.writer writes for float(it.rate), and for a rate that is None.
FormatRate(rate) ==
    CASE rate = None -> ""
      [] rate = Some(107) -> "1.07"
      [] rate = Some(200) -> "2.0"
      [] rate = Some(0) -> "0.0"

\* The key of grouped, and it.division.name.
ExportKey(it) ==
    <<it.division_id, it.item_code, IF it.organization = "" THEN "RHD" ELSE it.organization>>
DivisionName(it) ==
    IF \E d \in divisions : d.division_id = it.division_id
    THEN (CHOOSE d \in divisions : d.division_id = it.division_id).name
    ELSE ""

\* The orders list_items may return the rows of tbl in: the SELECT has no
\* ORDER BY.
Orders(tbl) ==
    {f \in [1..Cardinality(tbl) -> tbl] :
        \A i, j \in 1..Cardinality(tbl) : i # j => f[i] # f[j]}

\* The place of the first item of a group in the list, and the cell of a
\* region column: the rate of the last item of the group in that region.
FirstOf(order, key) ==
    CHOOSE i \in 1..Len(order) :
        /\ ExportKey(order[i]) = key
        /\ \A j \in 1..(i - 1) : ExportKey(order[j]) # key
RateCell(order, key, header) ==
    LET at == {i \in 1..Len(order) : /\ ExportKey(order[i]) = key
                                     /\ ExportRegion(order[i].region) = header}
    IN  IF at = {} THEN ""
        ELSE FormatRate(order[CHOOSE i \in at : \A j \in at : j <= i].rate)

\* One line of the table.
ExportRow(order, key) ==
    LET first == order[FirstOf(order, key)]
    IN  [item_code |-> first.item_code,
         division_name |-> DivisionName(first),
         description |-> first.item_description,
         unit |-> IF first.unit = None THEN "" ELSE Val(first.unit),
         cells |-> [k \in 1..Len(region_headers) |-> RateCell(order, key, region_headers[k])],
         organization |-> key[3]]

\* Python's order of the texts that name divisions and codes.
TextRank(t) ==
    CASE t = "" -> 0
      [] t = "01/01" -> 1
      [] t = "02/05" -> 2
      [] t = "Earthwork" -> 3
      [] t = "Pavement" -> 4

\* sorted(grouped.values(), key=(division_name, item_code)): a stable sort
\* of the groups, which the dict holds in the order of their first item.
RowBefore(order, a, b) ==
    LET ra == ExportRow(order, a)
        rb == ExportRow(order, b)
    IN  \/ TextRank(ra.division_name) < TextRank(rb.division_name)
        \/ /\ ra.division_name = rb.division_name
           /\ TextRank(ra.item_code) < TextRank(rb.item_code)
        \/ /\ ra.division_name = rb.division_name
           /\ ra.item_code = rb.item_code
           /\ FirstOf(order, a) < FirstOf(order, b)

RECURSIVE SortedKeys(_, _)
SortedKeys(order, keys) ==
    IF keys = {} THEN <<>>
    ELSE LET k == CHOOSE a \in keys : \A b \in keys \ {a} : RowBefore(order, a, b)
         IN  <<k>> \o SortedKeys(order, keys \ {k})

\* GET /items/export.csv: the lines of the table, for the list order.
export_items_csv(order) ==
    LET sorted_rows == SortedKeys(order, {ExportKey(order[i]) : i \in 1..Len(order)})
    IN  [n \in 1..Len(sorted_rows) |-> ExportRow(order, sorted_rows[n])]

\* An uploaded table: the texts of its header line, and its lines as
\* functions from header to cell. dict.get of a line: None for a column
\* the table lacks.
Range(seq) == {seq[i] : i \in DOMAIN seq}
Get(row, h) == IF h \in DOMAIN row THEN Some(row[h]) ELSE None
CleanCell(cell) == IF cell = None THEN "" ELSE clean_str(Val(cell))

ITEM_MASTER_HEADERS == <<"Division", "Item Code", "Description", "Unit", "Rate", "Region">>

\* What a parser returns or raises.
Parsed(rows) == [error |-> "", rows |-> rows]
Raised(error) == [error |-> error, rows |-> <<>>]

\* parse_item_master_csv_text and parse_item_master_xlsx_bytes: the header
\* validation, then one entry per line that has a code or a description.
LinearEntry(row) ==
    ParseLinearRow([division |-> row["Division"], item_code |-> row["Item Code"],
                    item_description |-> row["Description"], unit |-> row["Unit"],
                    rate |-> row["Rate"], region |-> row["Region"]])

RECURSIVE LinearEntries(_)
LinearEntries(rows) ==
    IF rows = <<>> THEN <<>>
    ELSE (IF LinearEntry(Head(rows)) = None THEN <<>> ELSE LinearEntry(Head(rows)))
             \o LinearEntries(Tail(rows))

parse_item_master_csv_text(upload) ==
    IF \E h \in Range(ITEM_MASTER_HEADERS) : h \notin Range(upload.headers)
    THEN Raised("Missing expected headers in Item Master")
    ELSE Parsed(LinearEntries(upload.rows))

\* base_synonyms of the pivoted parsers, and resolve_header / find_idx: the
\* first synonym that is the normalized text of a header, None without one.
base_synonyms(fmt) ==
    [item_code |-> <<"item code", "code", "itemcode", "item">>,
     division |-> IF fmt = "csv" THEN <<"major division", "Division", "division name">>
                  ELSE <<"major division", "division", "division name">>,
     description |-> <<"description", "item description", "desc">>,
     unit |-> <<"unit", "units">>,
     organization |-> IF fmt = "csv" THEN <<"organization", "org", "organisation">>
                      ELSE <<"organization", "org">>,
     si_no |-> <<"si. no", "si no", "serial", "sl", "sl.">>]

resolve_header(headers, cands) ==
    LET found == {c \in DOMAIN cands : \E i \in DOMAIN headers :
                                           Lower(Strip(headers[i])) = cands[c]}
    IN  IF found = {} THEN None
        ELSE LET c == CHOOSE x \in found : \A y \in found : x <= y
                 at == {i \in DOMAIN headers : Lower(Strip(headers[i])) = cands[c]}
             IN  Some(headers[CHOOSE i \in at : \A j \in at : j <= i])

\* "Comilla Zone" if h == "Cumilla Zone" else h
PivotRegion(h) == IF h = "Cumilla Zone" THEN "Comilla Zone" ELSE h

\* region_headers of the pivoted parsers: the headers that are neither base
\* nor optional, renamed.
RECURSIVE PivotRegions(_, _)
PivotRegions(headers, known) ==
    IF headers = <<>> THEN <<>>
    ELSE (IF Some(Head(headers)) \in known THEN <<>> ELSE <<PivotRegion(Head(headers))>>)
             \o PivotRegions(Tail(headers), known)

\* The rate cell a pivoted parser reads for a region column: the CSV parser
\* reads the renamed column, the XLSX parser falls back to "Cumilla Zone".
PivotCell(row, region, fmt) ==
    IF fmt = "xlsx" /\ Get(row, region) = None /\ region = "Comilla Zone"
    THEN Get(row, "Cumilla Zone")
    ELSE Get(row, region)

\* The entries of one line of a pivoted table: one per region column, none
\* for a line with neither code nor description.
ParsePivotRow(row, h, columns, fmt) ==
    LET cell(x) == IF x = None THEN None ELSE Get(row, Val(x))
        organization == CleanCell(cell(h.organization))
        entry == [division |-> CleanCell(cell(h.division)),
                  item_code |-> CleanCell(cell(h.item_code)),
                  item_description |-> CleanCell(cell(h.description)),
                  unit |-> IF cell(h.unit) = None THEN None ELSE clean_unit(Val(cell(h.unit))),
                  rate |-> None,
                  region |-> "",
                  organization |-> IF organization = "" THEN "RHD" ELSE organization]
    IN  IF entry.item_code = "" /\ entry.item_description = "" THEN <<>>
        ELSE [k \in DOMAIN columns |->
                 LET c == PivotCell(row, columns[k], fmt)
                 IN  [entry EXCEPT !.rate = IF c = None THEN None ELSE ParseRate(Val(c)),
                                   !.region = columns[k]]]

RECURSIVE PivotEntries(_, _, _, _)
PivotEntries(rows, h, columns, fmt) ==
    IF rows = <<>> THEN <<>>
    ELSE ParsePivotRow(Head(rows), h, columns, fmt)
             \o PivotEntries(Tail(rows), h, columns, fmt)

ParsePivot(upload, fmt) ==
    LET syn == base_synonyms(fmt)
        h == [k \in DOMAIN syn |-> resolve_header(upload.headers, syn[k])]
    IN  IF \E k \in {"item_code", "division", "description", "unit"} : h[k] = None
        THEN Raised("Missing expected base headers in pivot Item Master")
        ELSE Parsed(PivotEntries(upload.rows, h,
                                 PivotRegions(upload.headers, {h[k] : k \in DOMAIN h}),
                                 fmt))

parse_item_master_pivot_csv_text(upload) == ParsePivot(upload, "csv")
parse_item_master_pivot_xlsx_bytes(upload) == ParsePivot(upload, "xlsx")

\* The table csv.writer writes: the header line of export_items_csv, and
\* one line per row.
ExportHeaders ==
    <<"SI. No", "Item Code", "Major Division", "Description", "Unit">>
        \o region_headers \o <<"Organization">>

ExportLine(n, erow) ==
    [h \in Range(ExportHeaders) |->
        CASE h = "SI. No" -> "1"
          [] h = "Item Code" -> erow.item_code
          [] h = "Major Division" -> erow.division_name
          [] h = "Description" -> erow.description
          [] h = "Unit" -> erow.unit
          [] h = "Organization" -> erow.organization
          [] OTHER -> erow.cells[CHOOSE k \in DOMAIN region_headers : region_headers[k] = h]]

ExportFile(order) ==
    LET table == export_items_csv(order)
    IN  [headers |-> ExportHeaders,
         rows |-> [n \in DOMAIN table |-> ExportLine(n, table[n])]]

\* The (item_code, region, organization, rate) of the items, with the
\* region in the export's spelling.
C16_Tuples(tbl) ==
    {<<it.item_code, ExportRegion(it.region), it.organization, it.rate>> : it \in tbl}

\* The item master is exported, and the table uploaded to POST
\* /items/import: the parsers make the file of the request, and in replace
\* mode delete_all_items empties the item master.
ReimportStart(p, mode, order) ==
    /\ Free(p)
    /\ LET call == [IdleProc EXCEPT
                        !.op = "import", !.mode = mode, !.pc = "row",
                        !.file = parse_item_master_pivot_csv_text(ExportFile(order)).rows,
                        !.before = Some(C16_Tuples(items))]
           referenced == \/ \E l \in lines : l.item_id \in ItemIds
                         \/ \E x \in special_items : x.item_id \in ItemIds
       IN  IF mode = "replace" /\ ForeignKeys /\ referenced
           THEN /\ UNCHANGED <<items, proc>>
                /\ lastOp' = [op |-> "import", res |-> "IntegrityError", mode |-> mode,
                              processed |-> 0, skipped |-> 0, errors |-> 0]
           ELSE /\ items' = IF mode = "replace" THEN {} ELSE items
                /\ proc' = [proc EXCEPT ![p] = call]
                /\ UNCHANGED lastOp
    /\ UNCHANGED <<organizations, regions, divisions, special_items, estimations, lines,
                   requests, dialect, now, calc>>

\* The loop of import_items over the file of the request.
ImportFileRow(p) ==
    /\ proc[p].idx < Len(proc[p].file)
    /\ ImportRow(p, proc[p].file[proc[p].idx + 1], Len(proc[p].file))

ImportFileFinish(p) ==
    /\ proc[p].idx = Len(proc[p].file)
    /\ ImportFinish(p)

(***************************************************************************)
(* SpecRoundTrip: an item master built through the admin endpoints, with   *)
(* any region and rate, then exported and imported again, in either mode,  *)
(* with no other request running.                                          *)
(***************************************************************************)
RoundTripPayloads ==
    [division_id : {1},
     item_code : Codes,
     item_description : {"Earth filling"},
     unit : {Some("cum")},
     rate : {None, Some(107), Some(200)},
     region : {"Cumilla Zone", "Comilla Zone", "Jashore Zone"},
     organization : {"RHD"}]

NextRoundTrip ==
    \/ (\A p \in Procs : Free(p)) /\ CreateDivision("Earthwork", 1)
    \/ \E d \in RoundTripPayloads : (\A p \in Procs : Free(p)) /\ CreateItem(d)
    \/ \E p \in Procs, mode \in {"append", "replace"} : \E order \in Orders(items) :
           Quiet(p) /\ ReimportStart(p, mode, order)
    \/ \E p \in Procs : ImportFileRow(p)
    \/ \E p \in Procs : ImportRegionCreate(p)
    \/ \E p \in Procs : ImportDivisionCreate(p)
    \/ \E p \in Procs : ImportResolve(p)
    \/ \E p \in Procs : ImportItemUpdate(p)
    \/ \E p \in Procs : ImportItemCreate(p)
    \/ \E p \in Procs : ImportItemRefresh(p)
    \/ \E p \in Procs : ImportFileFinish(p)

SpecRoundTrip == Init /\ [][NextRoundTrip]_vars

\* C16: exporting the item master to the pivoted table and importing that
\* table again reproduces the set of (item_code, region, organization,
\* rate) the item master held before the export, up to the spelling of
\* Cumilla/Comilla, whatever the regions and rates of the items.
C16_RoundTrip ==
    [][\A p \in Procs :
           (proc[p].op = "import" /\ proc[p].before # None /\ proc'[p].op = "idle") =>
               C16_Tuples(items') = Val(proc[p].before)]_vars

(***************************************************************************)
(* The dispatch of import_items (app/routers/items.py): an uploaded table  *)
(* goes to the linear parser, and to the pivoted parser when that fails.   *)
(***************************************************************************)
parse_item_master_xlsx_bytes(upload) ==
    IF \E h \in Range(ITEM_MASTER_HEADERS) :
           h \notin {Strip(upload.headers[i]) : i \in DOMAIN upload.headers}
    THEN Raised("Missing expected headers in Item Master")
    ELSE Parsed(LinearEntries(upload.rows))

\* The linear and the pivoted parser of the upload's extension.
LinearParse(upload) ==
    IF upload.ext = "csv" THEN parse_item_master_csv_text(upload)
    ELSE parse_item_master_xlsx_bytes(upload)
PivotParse(upload) ==
    IF upload.ext = "csv" THEN parse_item_master_pivot_csv_text(upload)
    ELSE parse_item_master_pivot_xlsx_bytes(upload)

\* try: linear; except: pivoted. The format is the one the DEBUG line names.
Dispatch(upload) ==
    LET linear == LinearParse(upload)
    IN  IF linear.error = ""
        THEN [format |-> "linear", error |-> "", rows |-> linear.rows]
        ELSE LET pivoted == PivotParse(upload)
             IN  [format |-> "pivoted", error |-> pivoted.error, rows |-> pivoted.rows]

\* POST /items/import up to the loop: a table no parser takes is a 400 whose
\* detail is the error that reached the outer except; otherwise, in replace
\* mode, delete_all_items empties the item master.
ImportUpload(p, mode, upload) ==
    /\ Free(p)
    /\ LET parsed == Dispatch(upload)
           call == [IdleProc EXCEPT !.op = "import", !.mode = mode, !.pc = "row",
                                    !.file = parsed.rows]
           referenced == \/ \E l \in lines : l.item_id \in ItemIds
                         \/ \E x \in special_items : x.item_id \in ItemIds
       IN  IF parsed.error # ""
           THEN /\ UNCHANGED <<items, proc>>
                /\ lastOp' = [op |-> "import", res |-> "400", mode |-> mode,
                              detail |-> parsed.error, upload |-> upload]
           ELSE IF mode = "replace" /\ ForeignKeys /\ referenced
           THEN /\ UNCHANGED <<items, proc>>
                /\ lastOp' = [op |-> "import", res |-> "IntegrityError", mode |-> mode,
                              processed |-> 0, skipped |-> 0, errors |-> 0]
           ELSE /\ items' = IF mode = "replace" THEN {} ELSE items
                /\ proc' = [proc EXCEPT ![p] = call]
                /\ lastOp' = [op |-> "import_parse", res |-> "ok", mode |-> mode,
                              format |-> parsed.format, rows |-> parsed.rows,
                              upload |-> upload]
    /\ UNCHANGED <<organizations, regions, divisions, special_items, estimations, lines,
                   requests, dialect, now, calc>>

(***************************************************************************)
(* SpecUpload: linear and pivoted tables, and tables of neither format,    *)
(* uploaded as CSV or XLSX and imported one after the other.               *)
(***************************************************************************)
LinearLine(region, rate) ==
    [h \in Range(ITEM_MASTER_HEADERS) |->
        CASE h = "Division" -> "Earthwork"
          [] h = "Item Code" -> "01/01"
          [] h = "Description" -> "Earth filling"
          [] h = "Unit" -> "cum"
          [] h = "Rate" -> rate
          [] h = "Region" -> region]

PivotHeaders(legacy) ==
    <<"Item Code", "Major Division", "Description", "Unit", "Dhaka Zone", legacy>>
PivotLine(legacy, dhaka, comilla) ==
    [h \in Range(PivotHeaders(legacy)) |->
        CASE h = "Item Code" -> "01/01"
          [] h = "Major Division" -> "Earthwork"
          [] h = "Description" -> "Earth filling"
          [] h = "Unit" -> "cum"
          [] h = "Dhaka Zone" -> dhaka
          [] h = legacy -> comilla]

\* The cells of the two region columns of a pivoted line.
PivotCells == {<<"1.07", "2.0">>, <<"abc", "-">>, <<"1.07", "">>}

Uploads ==
    {[ext |-> e, headers |-> ITEM_MASTER_HEADERS, rows |-> <<LinearLine(r, "1.07")>>] :
        e \in {"csv", "xlsx"}, r \in {"Dhaka Zone", "Cumilla Zone"}}
    \cup
    {[ext |-> e, headers |-> PivotHeaders(z), rows |-> <<PivotLine(z, c[1], c[2])>>] :
        e \in {"csv", "xlsx"}, z \in {"Comilla Zone", "Cumilla Zone"}, c \in PivotCells}
    \cup
    {[ext |-> e, headers |-> <<"Item Code", "Description">>, rows |-> <<>>] :
        e \in {"csv", "xlsx"}}

NextUpload ==
    \/ \E p \in Procs, mode \in {"append", "replace"}, upload \in Uploads :
           Quiet(p) /\ ImportUpload(p, mode, upload)
    \/ \E p \in Procs : ImportFileRow(p)
    \/ \E p \in Procs : ImportRegionCreate(p)
    \/ \E p \in Procs : ImportDivisionCreate(p)
    \/ \E p \in Procs : ImportResolve(p)
    \/ \E p \in Procs : ImportItemUpdate(p)
    \/ \E p \in Procs : ImportItemCreate(p)
    \/ \E p \in Procs : ImportItemRefresh(p)
    \/ \E p \in Procs : ImportFileFinish(p)

SpecUpload == Init /\ [][NextUpload]_vars

\* C24: the dispatch takes the pivoted parser only when the linear one
\* failed, and when both fail the caller gets the linear parser's
\* missing-header error.
C24_DispatchError ==
    /\ lastOp.op = "import_parse" =>
           (lastOp.format = "pivoted" <=> LinearParse(lastOp.upload).error # "")
    /\ (lastOp.op = "import" /\ lastOp.res = "400") =>
           /\ LinearParse(lastOp.upload).error # ""
           /\ PivotParse(lastOp.upload).error # ""
           /\ lastOp.detail = LinearParse(lastOp.upload).error

\* C25: 'Cumilla Zone' is always normalized to 'Comilla Zone': no entry a
\* parser emitted carries the region 'Cumilla Zone', no Item and no Region
\* of that name is stored by the imports, and no export has a column of
\* that name.
C25_CumillaNormalized ==
    /\ \A p \in Procs : \A k \in DOMAIN proc[p].file :
           proc[p].file[k].region # "Cumilla Zone"
    /\ \A it \in items : it.region # "Cumilla Zone"
    /\ \A r \in regions : r.name # "Cumilla Zone"
    /\ "Cumilla Zone" \notin Range(ExportHeaders)

\* The region columns of an uploaded pivoted table.
C26_RegionColumns(upload) ==
    {h \in Range(upload.headers) :
        h \notin {"SI. No", "Item Code", "Major Division", "Description", "Unit",
                  "Organization"}}

\* C26: in pivoted parsing, for every line and every region column, the
\* entry emitted for them carries the numeric value of the line's cell in
\* that column, and no rate only for a cell that is '-', empty or not a
\* number; the values of a 'Cumilla Zone' column are emitted under the
\* region 'Comilla Zone'.
C26_PivotRates ==
    (lastOp.op = "import_parse" /\ lastOp.format = "pivoted") =>
        \A n \in DOMAIN lastOp.upload.rows :
            \A h \in C26_RegionColumns(lastOp.upload) :
                \E k \in DOMAIN lastOp.rows :
                    /\ lastOp.rows[k].item_code = lastOp.upload.rows[n]["Item Code"]
                    /\ lastOp.rows[k].region = PivotRegion(h)
                    /\ lastOp.rows[k].rate = ParseRate(lastOp.upload.rows[n][h])

(***************************************************************************)
(* SpecExport: an item master built through the admin endpoints, with      *)
(* items of one code that differ in region, organization and description,  *)
(* and exported in any order list_items returns.                           *)
(***************************************************************************)
ExportPayloads ==
    [division_id : {1},
     item_code : {"01/01"},
     item_description : {"Earth filling", "Brick work"},
     unit : {Some("cum")},
     rate : {Some(107)},
     region : {"Dhaka Zone", "Sylhet Zone"},
     organization : {"RHD", "LGED"}]

\* GET /items/export.csv
ExportItemsCsv(order) ==
    /\ lastOp' = [op |-> "export", res |-> "ok", table |-> export_items_csv(order)]
    /\ UNCHANGED <<catalog, special_items, estimations, lines, requests, dialect, now,
                   proc, calc>>

NextExport ==
    \/ CreateDivision("Earthwork", 1)
    \/ \E d \in ExportPayloads : CreateItem(d)
    \/ \E i \in 1..MaxItems : DeleteItem(i)
    \/ \E order \in Orders(items) : ExportItemsCsv(order)

SpecExport == Init /\ [][NextExport]_vars

\* C27: the export is a function of the set of Items: whatever order the
\* store returns them in, it has the same rows in the same order with the
\* same cells.
C27_ExportDeterministic ==
    [][(lastOp'.op = "export" /\ items' = items /\ divisions' = divisions) =>
           \A order \in Orders(items) : export_items_csv(order) = lastOp'.table]_vars

(***************************************************************************)
(* SpecAudit: requests approved and rejected one after the other, and the  *)
(* Items they made edited, imported again under their business key, in     *)
(* append and in replace mode, and their lines edited.                     *)
(***************************************************************************)
AuditRows ==
    {[division |-> "Earthwork", item_code |-> SpCode(0),
      item_description |-> "Earth filling", unit |-> Some("cum"), rate |-> Some(200),
      region |-> "Dhaka Zone", organization |-> "RHD"]}

NextAudit ==
    \/ CreateEstimation(1)
    \/ CreateDivision("Earthwork", 1)
    \/ \E d \in RequestPayloads : CreateSpecialItemRequest(1, d, 1)
    \/ \E p \in Procs, r \in 1..MaxRequests : Quiet(p) /\ ApproveRead(p, r)
    \/ \E p \in Procs : ApproveItem(p)
    \/ \E p \in Procs : ApproveSpecial(p)
    \/ \E p \in Procs : ApproveLine(p)
    \/ \E p \in Procs : ApproveMark(p)
    \/ \E p \in Procs, r \in 1..MaxRequests :
           Quiet(p) /\ RejectRead(p, r, Some("duplicate"))
    \/ \E p \in Procs : RejectWrite(p)
    \/ \E i \in 1..MaxItems, d \in RateUpdates : (\A p \in Procs : Free(p)) /\ UpdateItem(i, d)
    \/ \E l \in 1..MaxLinesEdit, d \in LinePayloads :
           (\A p \in Procs : Free(p)) /\ UpdateLine(l, d)
    \/ \E p \in Procs, mode \in {"append", "replace"} : Quiet(p) /\ ImportStart(p, mode)
    \/ \E p \in Procs, row \in AuditRows : ImportRow(p, row, MaxRows)
    \/ \E p \in Procs : ImportRegionCreate(p)
    \/ \E p \in Procs : ImportDivisionCreate(p)
    \/ \E p \in Procs : ImportResolve(p)
    \/ \E p \in Procs : ImportItemUpdate(p)
    \/ \E p \in Procs : ImportItemCreate(p)
    \/ \E p \in Procs : ImportItemRefresh(p)
    \/ \E p \in Procs : ImportFinish(p)

SpecAudit == Init /\ [][NextAudit]_vars

\* C28: each Item has at most one SpecialItem, and a SpecialItem that
\* approve created keeps every field under the operations that follow:
\* update_item on its Item, a re-import of its business key, line edits,
\* further approve and reject calls.
C28_SpecialItemImmutable ==
    [][/\ \A x \in special_items : x \in special_items'
       /\ \A x \in special_items' : \A y \in special_items' :
              (x.item_id = y.item_id \/ x.special_item_id = y.special_item_id) => x = y]_vars

\* The Item of a SpecialItem was written over after the approval: its rate
\* and its description are no more those of the snapshot.
C28_Witness ==
    \E x \in special_items : \E it \in items :
        /\ it.item_id = x.item_id
        /\ it.item_code = x.item_code
        /\ it.rate # x.rate
        /\ it.item_description # x.item_description

(***************************************************************************)
(* SpecLines: the catalog's admin endpoints and the line endpoints, with   *)
(* every dimensional input, over at most MaxLinesEdit lines.               *)
(***************************************************************************)
NextLines ==
    \/ CreateEstimation(MaxLinesEdit)
    \/ CreateDivision("Earthwork", 1)
    \/ \E d \in ItemPayloads : CreateItem(d)
    \/ \E i \in 1..MaxItems, d \in RateUpdates : UpdateItem(i, d)
    \/ \E d \in LinePayloads : AddLine(1, d, MaxLinesEdit)
    \/ \E l \in 1..MaxLinesEdit, d \in LinePayloads : UpdateLine(l, d)
    \/ \E l \in 1..MaxLinesEdit : DeleteLines({l})

SpecLines == Init /\ [][NextLines]_vars

\* C30: a line operation that names an item_id of no stored Item, add_line
\* or update_line to an item_id other than the line's, answers not found
\* and leaves the estimation lines as they were.
C30_MissingItemAborts ==
    [][/\ \A d \in LinePayloads :
              (d.item_id \notin ItemIds /\ 1 \in estimations /\ AddLine(1, d, MaxLinesEdit)) =>
                  (lines' = lines /\ lastOp'.res = "404")
       /\ \A l \in LineIds : \A d \in LinePayloads :
              (/\ d.item_id # 0
               /\ d.item_id \notin ItemIds
               /\ d.item_id # LineById(l).item_id
               /\ UpdateLine(l, d)) =>
                  (lines' = lines /\ lastOp'.res = "404")]_vars

(***************************************************************************)
(* SpecTotals: lines of several estimations added, edited and deleted.     *)
(***************************************************************************)
TotalsItems == {d \in ItemPayloads : d.item_code = "01/01"}
TotalsPayloads == {LinePayload(1, d) : d \in LineDims}

NextTotals ==
    \/ CreateEstimation(MaxEstimations)
    \/ CreateDivision("Earthwork", 1)
    \/ \E d \in TotalsItems : CreateItem(d)
    \/ \E e \in 1..MaxEstimations, d \in TotalsPayloads : AddLine(e, d, MaxLines)
    \/ \E l \in 1..MaxLines, d \in TotalsPayloads : UpdateLine(l, d)
    \/ \E ids \in SUBSET (1..MaxLines) : DeleteLines(ids)

SpecTotals == Init /\ [][NextTotals]_vars

(***************************************************************************)
(* SpecCalc: calculate_qty applied to each input.                          *)
(***************************************************************************)
\* Counts: none, 0, 1, 2. Dimensions: none, 0, 0.12, 3.00, 4.00. Quantity
\* override: none, 0, 10.00.
CalcInputs ==
    [no_of_units : {None, Some(0), Some(1), Some(2)},
     length : {None, Some(0), Some(12), Some(300)},
     width : {None, Some(0), Some(12), Some(400)},
     thickness : {None, Some(0), Some(12)},
     quantity : {None, Some(0), Some(1000)},
     done : {FALSE},
     out : {0}]

InitCalc == InitDb /\ calc \in CalcInputs

ApplyCalculateQty ==
    /\ ~calc.done
    /\ calc' = [calc EXCEPT !.done = TRUE,
                            !.out = calculate_qty(calc.no_of_units, calc.length,
                                                  calc.width, calc.thickness,
                                                  calc.quantity)]
    /\ UNCHANGED <<catalog, special_items, estimations, lines, requests, dialect,
                   now, proc, lastOp>>

SpecCalc == InitCalc /\ [][ApplyCalculateQty]_vars

(***************************************************************************)
(* C7. A line's rate is the rate snapshotted when the line was created or  *)
(* last re-pointed: no step changes the rate of a line that keeps its      *)
(* item_id (updates of the line, updates of the item's catalog rate), and  *)
(* a step that changes a line's item_id leaves the rate taken from the new *)
(* item (0 for an item without a rate).                                    *)
(***************************************************************************)
C7_RateOnlyResnapshotOnRepoint ==
    [][\A l \in lines : \A m \in lines' :
          l.line_id = m.line_id =>
              IF m.item_id = l.item_id
              THEN m.rate = l.rate
              ELSE m.rate = SnapshotRate(items, m.item_id)]_vars

\* An update that kept the item has just run on a line whose rate is no longer
\* the rate the catalog gives its item.
C7_Witness ==
    /\ lastOp = [op |-> "update_line", res |-> "ok"]
    /\ \E l \in lines : /\ l.item_id \in ItemIds
                        /\ l.rate # SnapshotRate(items, l.item_id)

(***************************************************************************)
(* C9. Every stored line has amount = calculated_qty * rate rounded to 2   *)
(* decimal places when its rate is not null, and a null amount when its    *)
(* rate is null.                                                           *)
(***************************************************************************)
C9_AmountIsStoredQtyTimesRate ==
    \A l \in lines :
        IF l.rate # None
        THEN l.amount = Some(RoundHalfEven(Val(l.calculated_qty) * Val(l.rate), QtyScale))
        ELSE l.amount = None

(***************************************************************************)
(* C8. calculate_qty returns the quantity override when quantity is not    *)
(* null, and otherwise no_of_units (1 when null or 0) times each of        *)
(* length, width and thickness that is not null.                           *)
(***************************************************************************)
C8_Factor(d) == IF d = None THEN DimUnit ELSE Val(d)

C8_CalculateQty ==
    calc.done =>
        calc.out =
            IF calc.quantity # None
            THEN Val(calc.quantity) * DimUnit * DimUnit
            ELSE (IF calc.no_of_units \in {None, Some(0)} THEN 1 ELSE Val(calc.no_of_units))
                 * C8_Factor(calc.length) * C8_Factor(calc.width)
                 * C8_Factor(calc.thickness)

\* units = 2, length = 3, width = 4, thickness and quantity null: 24.
C8_Witness ==
    /\ calc.done
    /\ calc.no_of_units = Some(2) /\ calc.length = Some(300) /\ calc.width = Some(400)
    /\ calc.thickness = None /\ calc.quantity = None
    /\ calc.out = 24 * Micro

(***************************************************************************)
(* C10. estimation_total(e) is the sum of the amounts of the lines that    *)
(* are in estimation e, a null amount counting as 0; it is 0 for an        *)
(* estimation without lines.                                               *)
(***************************************************************************)
RECURSIVE C10_Sum(_)
C10_Sum(ids) ==
    IF ids = {} THEN 0
    ELSE LET i == CHOOSE x \in ids : TRUE
             a == LineById(i).amount
         IN  (IF a = None THEN 0 ELSE Val(a)) + C10_Sum(ids \ {i})

C10_TotalIsSumOfLines ==
    \A e \in 1..MaxEstimations :
        /\ estimation_total(e) = C10_Sum({l.line_id : l \in {x \in lines : x.estimation_id = e}})
        /\ (\A l \in lines : l.estimation_id # e) => estimation_total(e) = 0

\* A line has just been edited; one estimation holds a line with an amount,
\* another estimation holds a line too.
C10_Witness ==
    /\ lastOp = [op |-> "update_line", res |-> "ok"]
    /\ \E l \in lines, m \in lines :
          /\ l.estimation_id # m.estimation_id
          /\ Val(l.amount) > 0 /\ Val(m.amount) > 0
          /\ estimation_total(l.estimation_id) = Val(l.amount)

=============================================================================
